---- MODULE Spec2Model ----
(***************************************************************************)
(* A model of crates/markdown/src/parser.rs: parse_markdown, the single    *)
(* pass over the tokenizer's (event, range) stream, flush_substituted_text *)
(* and parse_links_only.                                                   *)
(*                                                                         *)
(* The tokenizer (pulldown_cmark::Parser::into_offset_iter) and the URL    *)
(* scanner (linkify::LinkFinder) are external crates.  They are modelled   *)
(* as an environment: the tokenizer yields, one event per step, any stream *)
(* whose Start/End events nest properly, whose ranges lie inside the text  *)
(* and whose leaf ranges are in document order; the scanner returns any    *)
(* increasing list of non-empty, non-overlapping spans of the slice it is  *)
(* given.  One step of the model is one iteration of the for loop of       *)
(* parse_markdown (lines 24-144), one action per arm of its match.         *)
(***************************************************************************)
EXTENDS Integers, Sequences, FiniteSets, TLC

VARIABLES
    text,                    \* the &str argument: a sequence of bytes
    call,                    \* which entry point runs: "parse_markdown" | "parse_links_only"
    pc,                      \* "loop" while the for loop runs, "done" once the call returned
    stack,                   \* tokenizer: the elements it has opened and not yet closed
    pos,                     \* tokenizer: the offset up to which the text is consumed
    input,                   \* the (event, range) pairs the iterator has yielded so far
    events,                  \* let mut events = Vec::new()
    languages,               \* let mut languages = HashSet::new()
    within_link,             \* let mut within_link = false
    within_metadata,         \* let mut within_metadata = false
    substituted_text_range,  \* let mut substituted_text_range = 0..0
    substituted_text_chunks, \* let mut substituted_text_chunks = vec![]
    errors_logged,           \* number of log::error! calls made so far
    matches,                 \* parse_links_only: what finder.links(text) returned
    called_before,           \* a call has returned before this call began
    document                 \* tokenizer: the documents it is run on, "any" | "paragraphs"

vars == <<text, call, pc, stack, pos, input, events, languages, within_link,
          within_metadata, substituted_text_range, substituted_text_chunks,
          errors_logged, matches, called_before, document>>

(***************************************************************************)
(* Bounds of the model.                                                    *)
(***************************************************************************)
\* text.len() is at most MaxLen
MaxLen == 3
\* the tokenizer yields at most MaxEvents events (see StreamBound)
MaxEvents == 4
\* bytes the tokenizer may skip between two consecutive ranges (delimiters,
\* indentation)
MaxGap == 1
\* text.len() of a call made after another call has returned is at most
\* MaxAgainLen
MaxAgainLen == 1

\* The most elements a collection of a tag holds (classes, attributes,
\* column alignments)
MaxItems == 2

(***************************************************************************)
(* Values.                                                                 *)
(***************************************************************************)
\* Range<usize>
Range(s, e) == [start |-> s, end |-> e]

\* The source buffer of length n.  Every byte is distinct, so that a slice of
\* the text identifies the offsets it was taken from.
Source(n) == [i \in 1..n |-> i]

\* A byte that continues a character of more than one byte (0b10xxxxxx).
IsContinuation(byte) == byte \in 128..191

\* The source buffer of length n in which a character of two bytes starts at
\* each index of wide (the first byte is at index 1): a leading byte, then a
\* continuation byte.  The other characters take one byte.
Utf8(n, wide) ==
    [i \in 1..n |-> IF i \in wide THEN 192 + i
                    ELSE IF (i - 1) \in wide THEN 128 + i
                    ELSE i]

\* The source buffers of length n made of characters of one and two bytes.
Texts(n) ==
    { Utf8(n, wide) : wide \in { w \in SUBSET (1..(n - 1)) : \A i \in w : (i + 1) \notin w } }

\* str.is_char_boundary(index): the start, the end, or an offset at which a
\* character starts.
is_char_boundary(str, index) ==
    \/ index = 0
    \/ index = Len(str)
    \/ 0 < index /\ index < Len(str) /\ ~IsContinuation(str[index + 1])

\* &text[range]
Slice(str, range) == SubSeq(str, range.start + 1, range.end)

\* A tag, of the tokenizer (pulldown_cmark::Tag) or owned (MarkdownTag).  The
\* fields a variant does not carry hold the defaults below.
MkTag(kind, link_type, dest_url, title, id, code_block_kind, lang) ==
    [kind |-> kind, link_type |-> link_type, dest_url |-> dest_url,
     title |-> title, id |-> id, code_block_kind |-> code_block_kind,
     lang |-> lang]

UnitTag(kind) == MkTag(kind, "", <<>>, <<>>, <<>>, "", "")

NoTag == UnitTag("")

\* MarkdownTag::Link { link_type, dest_url, title, id }
LinkTag(link_type, dest_url, title, id) ==
    MkTag("Link", link_type, dest_url, title, id, "", "")

\* (Range<usize>, MarkdownEvent): ev is the variant, tag the MarkdownTag of a
\* Start or the kind of an End, str the payload of a SubstitutedText, checked
\* the boolean of a TaskListMarker.
MkEvent(range, ev, tag, str, checked) ==
    [range |-> range, ev |-> ev, tag |-> tag, str |-> str, checked |-> checked]

StartEvent(range, tag) == MkEvent(range, "Start", tag, <<>>, FALSE)
EndEvent(range, kind) == MkEvent(range, "End", UnitTag(kind), <<>>, FALSE)
TextEvent(range) == MkEvent(range, "Text", NoTag, <<>>, FALSE)
SubstitutedTextEvent(range, str) == MkEvent(range, "SubstitutedText", NoTag, str, FALSE)
LeafEvent(range, ev, checked) == MkEvent(range, ev, NoTag, <<>>, checked)

RECURSIVE Concat(_)
\* substituted_text_chunks.concat()
Concat(chunks) ==
    IF chunks = <<>> THEN <<>> ELSE Head(chunks) \o Concat(Tail(chunks))

(***************************************************************************)
(* pulldown_cmark::Options: a set of flags, here the set of the bits that  *)
(* are set.  The flags are those of the version of the crate whose Tag has *)
(* the variants matched in lines 325-403.                                  *)
(***************************************************************************)
ENABLE_TABLES == {1}
ENABLE_FOOTNOTES == {2}
ENABLE_STRIKETHROUGH == {3}
ENABLE_TASKLISTS == {4}
ENABLE_SMART_PUNCTUATION == {5}
ENABLE_HEADING_ATTRIBUTES == {6}
ENABLE_YAML_STYLE_METADATA_BLOCKS == {7}
ENABLE_PLUSES_DELIMITED_METADATA_BLOCKS == {8}
ENABLE_OLD_FOOTNOTES == {9, 2}
ENABLE_MATH == {10}
ENABLE_GFM == {11}
ENABLE_DEFINITION_LIST == {12}

\* Options::all() and Options::empty()
OptionsAll ==
    ENABLE_TABLES \cup ENABLE_FOOTNOTES \cup ENABLE_STRIKETHROUGH \cup ENABLE_TASKLISTS
    \cup ENABLE_SMART_PUNCTUATION \cup ENABLE_HEADING_ATTRIBUTES
    \cup ENABLE_YAML_STYLE_METADATA_BLOCKS \cup ENABLE_PLUSES_DELIMITED_METADATA_BLOCKS
    \cup ENABLE_OLD_FOOTNOTES \cup ENABLE_MATH \cup ENABLE_GFM \cup ENABLE_DEFINITION_LIST

OptionsEmpty == {}

\* PARSE_OPTIONS with Options::ENABLE_MATH added
PARSE_OPTIONS_WithMath ==
    ENABLE_TABLES \cup ENABLE_FOOTNOTES \cup ENABLE_STRIKETHROUGH \cup ENABLE_TASKLISTS
    \cup ENABLE_SMART_PUNCTUATION \cup ENABLE_HEADING_ATTRIBUTES
    \cup ENABLE_PLUSES_DELIMITED_METADATA_BLOCKS \cup ENABLE_OLD_FOOTNOTES \cup ENABLE_GFM
    \cup ENABLE_MATH

\* Lines 7-15
PARSE_OPTIONS ==
    ENABLE_TABLES \cup ENABLE_FOOTNOTES \cup ENABLE_STRIKETHROUGH \cup ENABLE_TASKLISTS
    \cup ENABLE_SMART_PUNCTUATION \cup ENABLE_HEADING_ATTRIBUTES
    \cup ENABLE_PLUSES_DELIMITED_METADATA_BLOCKS \cup ENABLE_OLD_FOOTNOTES \cup ENABLE_GFM

\* Lines 426-428
UNWANTED_OPTIONS ==
    ENABLE_YAML_STYLE_METADATA_BLOCKS \cup ENABLE_MATH \cup ENABLE_DEFINITION_LIST

(***************************************************************************)
(* Pure functions of parser.rs.                                            *)
(***************************************************************************)
\* impl From<pulldown_cmark::Tag> for MarkdownTag: each variant maps to the
\* variant of the same name, each string field to an owned copy; the kind of
\* a block quote is dropped.
FromTag(tag) ==
    CASE tag.kind = "Link" ->
            LinkTag(tag.link_type, tag.dest_url, tag.title, tag.id)
      [] tag.kind = "Image" ->
            MkTag("Image", tag.link_type, tag.dest_url, tag.title, tag.id, "", "")
      [] tag.kind = "CodeBlock" ->
            IF tag.code_block_kind = "Indented"
            THEN MkTag("CodeBlock", "", <<>>, <<>>, <<>>, "Indented", "")
            ELSE MkTag("CodeBlock", "", <<>>, <<>>, <<>>, "Fenced", tag.lang)
      [] OTHER -> UnitTag(tag.kind)

\* str_points_inside with the byte behind the container taken as inside
str_points_insideInclusive(substring_ptr, container) ==
    substring_ptr >= 0 /\ substring_ptr <= 0 + Len(container)

\* str_points_inside: addresses are offsets from text.as_ptr(), so the
\* container occupies [0, container.len()).
str_points_inside(substring_ptr, container) ==
    substring_ptr >= 0 /\ substring_ptr < 0 + Len(container)

\* cow_str_points_inside
cow_str_points_inside(substring, container) ==
    CASE substring.variant = "Boxed" -> str_points_inside(substring.ptr, container)
      [] substring.variant = "Borrowed" -> str_points_inside(substring.ptr, container)
      [] substring.variant = "Inlined" -> FALSE

\* flush_substituted_text without substituted_text_chunks.clear()
flush_substituted_text_keeps_chunks(range, chunks, evs) ==
    IF chunks # <<>>
    THEN [events |-> Append(evs, SubstitutedTextEvent(range, Concat(chunks))),
          chunks |-> chunks]
    ELSE [events |-> evs, chunks |-> chunks]

\* flush_substituted_text: the events and the chunks it leaves behind
flush_substituted_text(range, chunks, evs) ==
    IF chunks # <<>>
    THEN [events |-> Append(evs, SubstitutedTextEvent(range, Concat(chunks))),
          chunks |-> <<>>]
    ELSE [events |-> evs, chunks |-> chunks]

\* LinkEvents without the Text between the Start and the End
LinkEventsWithoutText(link_range, link) ==
    << StartEvent(link_range, LinkTag("Autolink", link.as_str, <<>>, <<>>)),
       EndEvent(link_range, "Link") >>

\* The three events pushed for one link (lines 102-116 and 179-189)
LinkEvents(link_range, link) ==
    << StartEvent(link_range, LinkTag("Autolink", link.as_str, <<>>, <<>>)),
       TextEvent(link_range),
       EndEvent(link_range, "Link") >>

RECURSIVE AutolinkLoopSliceOffsets(_, _, _, _)
\* AutolinkLoop with the spans taken as offsets into the text, not into the
\* slice (text_range.start is not added)
AutolinkLoopSliceOffsets(links, text_range, range, evs) ==
    IF links = <<>>
    THEN [events |-> evs, range |-> range]
    ELSE LET link == Head(links)
             link_range == Range(link.start, link.end)
             gap == IF link_range.start > range.start
                    THEN Append(evs, TextEvent(Range(range.start, link_range.start)))
                    ELSE evs
         IN AutolinkLoopSliceOffsets(Tail(links), text_range,
                                     Range(link_range.end, range.end),
                                     gap \o LinkEvents(link_range, link))

RECURSIVE AutolinkLoopKeepsStart(_, _, _, _)
\* AutolinkLoop without range.start = link_range.end
AutolinkLoopKeepsStart(links, text_range, range, evs) ==
    IF links = <<>>
    THEN [events |-> evs, range |-> range]
    ELSE LET link == Head(links)
             link_range == Range(text_range.start + link.start,
                                 text_range.start + link.end)
             gap == IF link_range.start > range.start
                    THEN Append(evs, TextEvent(Range(range.start, link_range.start)))
                    ELSE evs
         IN AutolinkLoopKeepsStart(Tail(links), text_range, range,
                                   gap \o LinkEvents(link_range, link))

RECURSIVE AutolinkLoopPushesGap(_, _, _, _)
\* AutolinkLoop without the test link_range.start > range.start before the
\* Text over the gap
AutolinkLoopPushesGap(links, text_range, range, evs) ==
    IF links = <<>>
    THEN [events |-> evs, range |-> range]
    ELSE LET link == Head(links)
             link_range == Range(text_range.start + link.start,
                                 text_range.start + link.end)
             gap == Append(evs, TextEvent(Range(range.start, link_range.start)))
         IN AutolinkLoopPushesGap(Tail(links), text_range,
                                  Range(link_range.end, range.end),
                                  gap \o LinkEvents(link_range, link))

RECURSIVE AutolinkLoop(_, _, _, _)
\* for link in finder.links(&text[text_range.clone()]) { ... } of
\* parse_markdown: the events and the range it leaves behind
AutolinkLoop(links, text_range, range, evs) ==
    IF links = <<>>
    THEN [events |-> evs, range |-> range]
    ELSE LET link == Head(links)
             link_range == Range(text_range.start + link.start,
                                 text_range.start + link.end)
             gap == IF link_range.start > range.start
                    THEN Append(evs, TextEvent(Range(range.start, link_range.start)))
                    ELSE evs
         IN AutolinkLoop(Tail(links), text_range,
                         Range(link_range.end, range.end),
                         gap \o LinkEvents(link_range, link))

RECURSIVE LinksOnlyLoopKeepsStart(_, _, _)
\* LinksOnlyLoop without text_range.start = link_range.end
LinksOnlyLoopKeepsStart(links, text_range, evs) ==
    IF links = <<>>
    THEN [events |-> evs, range |-> text_range]
    ELSE LET link == Head(links)
             link_range == Range(link.start, link.end)
             gap == IF link_range.start > text_range.start
                    THEN Append(evs, TextEvent(Range(text_range.start, link_range.start)))
                    ELSE evs
         IN LinksOnlyLoopKeepsStart(Tail(links), text_range,
                                    gap \o LinkEvents(link_range, link))

RECURSIVE LinksOnlyLoop(_, _, _)
\* for link in finder.links(text) { ... } of parse_links_only
LinksOnlyLoop(links, text_range, evs) ==
    IF links = <<>>
    THEN [events |-> evs, range |-> text_range]
    ELSE LET link == Head(links)
             link_range == Range(link.start, link.end)
             gap == IF link_range.start > text_range.start
                    THEN Append(evs, TextEvent(Range(text_range.start, link_range.start)))
                    ELSE evs
         IN LinksOnlyLoop(Tail(links), Range(link_range.end, text_range.end),
                          gap \o LinkEvents(link_range, link))

\* parse_links_only with the Text over the remainder pushed when it is empty too
parse_links_only_pushes_empty(str, links) ==
    LET after == LinksOnlyLoop(links, Range(0, Len(str)), <<>>)
    IN Append(after.events, TextEvent(after.range))

\* parse_links_only without the Text over the remainder
parse_links_only_no_remainder(str, links) ==
    LinksOnlyLoop(links, Range(0, Len(str)), <<>>).events

\* parse_links_only(text), given what finder.links(text) returns
parse_links_only(str, links) ==
    LET after == LinksOnlyLoop(links, Range(0, Len(str)), <<>>)
    IN IF after.range.end > after.range.start
       THEN Append(after.events, TextEvent(after.range))
       ELSE after.events

(***************************************************************************)
(* The environment: linkify's scanner.                                     *)
(***************************************************************************)
\* A linkify::Link over a slice: start() and end() are offsets into the slice,
\* as_str() is the matched part of the slice.
MkLink(slice, s, e) == [start |-> s, end |-> e, as_str |-> SubSeq(slice, s + 1, e)]

\* What finder.links(slice) may return: any list of non-empty spans of the
\* slice, increasing and non-overlapping (two spans may touch).  A span is a
\* &str, so it starts and ends between two characters.
RECURSIVE LinksFrom(_, _)
LinksFrom(slice, from) ==
    {<<>>} \cup
    UNION { { <<MkLink(slice, s, e)>> \o rest : rest \in LinksFrom(slice, e) } :
            <<s, e>> \in { p \in (from..Len(slice)) \X (from..Len(slice)) :
                             /\ p[1] < p[2]
                             /\ is_char_boundary(slice, p[1])
                             /\ is_char_boundary(slice, p[2]) } }

Links(slice) == LinksFrom(slice, 0)

(***************************************************************************)
(* The environment: the tokenizer.                                         *)
(***************************************************************************)
\* pulldown_cmark::CowStr: the variant, the address of its first byte as an
\* offset from text.as_ptr(), and its bytes.
CowStr(variant, ptr, str) == [variant |-> variant, ptr |-> ptr, str |-> str]

NoCow == CowStr("", 0 - 1, <<>>)

\* (pulldown_cmark::Event, Range<usize>), and with a Text event what
\* finder.links(&text[range]) returns for it
MkToken(ev, tag, cow, checked, range, links) ==
    [ev |-> ev, tag |-> tag, cow |-> cow, checked |-> checked, range |-> range,
     links |-> links]

\* The tags the tokenizer opens in this model.
AllTags ==
    { UnitTag("Paragraph"),
      MkTag("Link", "Inline", <<>>, <<>>, <<>>, "", ""),
      MkTag("Image", "Inline", <<>>, <<>>, <<>>, "", ""),
      UnitTag("MetadataBlock"),
      MkTag("CodeBlock", "", <<>>, <<>>, <<>>, "Fenced", "rust"),
      MkTag("CodeBlock", "", <<>>, <<>>, <<>>, "Fenced", ""),
      MkTag("CodeBlock", "", <<>>, <<>>, <<>>, "Indented", "") }

\* The tags the tokenizer opens in the documents it is run on: all of them,
\* or, in a text of paragraphs and metadata blocks, these two.
Tags ==
    IF document = "paragraphs"
    THEN { UnitTag("Paragraph"), UnitTag("MetadataBlock") }
    ELSE AllTags

\* The most events of a stream: a text of paragraphs and metadata blocks is
\* followed for one event more than the others.
StreamBound == IF document = "paragraphs" THEN MaxEvents + 1 ELSE MaxEvents

\* The replacement strings of substituted Text events: a decoded character
\* (inlined), a static string of four bytes below the text, and a heap string
\* of five bytes that starts right behind the text.
Replacements(str) ==
    { CowStr("Inlined", 0 - 1, <<201>>),
      CowStr("Borrowed", 0 - 1, <<202, 203, 204, 205>>),
      CowStr("Boxed", Len(str), <<206, 207, 208, 209, 210>>) }

PassThroughKinds ==
    {"Html", "InlineHtml", "FootnoteReference", "SoftBreak", "HardBreak", "Rule"}

MathKinds == {"InlineMath", "DisplayMath"}

\* The end of the innermost open element, or of the text.
Limit == IF stack = <<>> THEN Len(text) ELSE stack[Len(stack)].range.end

Min(a, b) == IF a <= b THEN a ELSE b

\* The ranges of at least min_len bytes the next event may carry: it starts at
\* the cursor or up to MaxGap bytes behind it, ends inside the innermost open
\* element, and starts and ends between two characters.
Ranges(min_len) ==
    { Range(s, e) : <<s, e>> \in
        { p \in (pos..Min(pos + MaxGap, Limit)) \X (pos..Limit) :
            /\ p[1] + min_len <= p[2]
            /\ is_char_boundary(text, p[1])
            /\ is_char_boundary(text, p[2]) } }

\* A slot is left for one more leaf event within StreamBound events.
Room == pc = "loop" /\ call = "parse_markdown" /\ Len(input) + Len(stack) + 1 <= StreamBound

\* The string the tokenizer puts in for the indentation of a line of a code
\* block or of an HTML block: a static string of spaces, below the text.
Indentation == CowStr("Borrowed", 0 - 1, <<211>>)

\* The innermost open element is a code block or an HTML block.
InBlockOfLines ==
    stack # <<>> /\ stack[Len(stack)].tag.kind \in {"CodeBlock", "HtmlBlock"}

\* The Text events over the ranges the cursor allows: the text itself
\* (borrowed from the input), the result of a substitution, or, over no
\* bytes and in a code block or an HTML block, the spaces put in for an
\* indentation.
TextTokens ==
    { MkToken("Text", NoTag, CowStr("Borrowed", r.start, Slice(text, r)), FALSE, r, links) :
        <<r, links>> \in UNION { {r} \X Links(Slice(text, r)) : r \in Ranges(1) } }
    \cup { MkToken("Text", NoTag, cow, FALSE, r, <<>>) :
             cow \in Replacements(text), r \in Ranges(1) }
    \cup { MkToken("Text", NoTag, Indentation, FALSE, r, <<>>) :
             r \in { q \in Ranges(0) : q.start = q.end /\ InBlockOfLines } }

\* The math events, which the tokenizer yields only if the options it is
\* given hold Options::ENABLE_MATH (PARSE_OPTIONS, lines 7-15, leaves it out).
MathTokens ==
    IF Room /\ ENABLE_MATH \subseteq PARSE_OPTIONS
    THEN { MkToken(k, NoTag, NoCow, FALSE, r, <<>>) : k \in MathKinds, r \in Ranges(1) }
    ELSE {}

\* A Text event over no bytes at the cursor, its slice borrowed from the
\* input.  The tokenizer yields no such text, only substituted ones over no
\* bytes (TextTokens); the loop would accept one.
EmptyTextTokens ==
    IF Room /\ stack # <<>>
    THEN { MkToken("Text", NoTag, CowStr("Borrowed", pos, <<>>), FALSE, Range(pos, pos), <<>>) }
    ELSE {}

\* The Start events: an element starts at the cursor or up to MaxGap bytes
\* behind it (the indentation of its line, a delimiter) and is not empty.  A
\* Start is yielded only while the stream can still be closed within
\* StreamBound events.
StartTokens ==
    IF pc = "loop" /\ call = "parse_markdown" /\ Len(input) + Len(stack) + 2 <= StreamBound
    THEN { MkToken("Start", tag, NoCow, FALSE, r, <<>>) : tag \in Tags, r \in Ranges(1) }
    ELSE {}

\* The End of the innermost open element.
EndTokens ==
    IF pc = "loop" /\ call = "parse_markdown" /\ stack # <<>>
    THEN { MkToken("End", UnitTag(stack[Len(stack)].tag.kind), NoCow, FALSE,
                   stack[Len(stack)].range, <<>>) }
    ELSE {}

\* The Text events inside an element.
InnerTextTokens == IF Room /\ stack # <<>> THEN TextTokens ELSE {}

\* The Code events, inside an element: a code span holds its two delimiters,
\* which take one byte each.
CodeTokens ==
    IF Room /\ stack # <<>>
    THEN { MkToken("Code", NoTag, NoCow, FALSE, r, <<>>) :
             r \in { q \in Ranges(2) : text[q.start + 1] < 128 /\ text[q.end] < 128 } }
    ELSE {}

\* The events pushed as they are: a rule anywhere, the others inside an
\* element.
PassThroughTokens ==
    IF Room
    THEN { MkToken(k, NoTag, NoCow, FALSE, r, <<>>) :
             k \in { j \in PassThroughKinds : stack # <<>> \/ j = "Rule" }, r \in Ranges(1) }
         \cup { MkToken("TaskListMarker", NoTag, NoCow, b, r, <<>>) :
                  b \in { c \in BOOLEAN : stack # <<>> }, r \in Ranges(1) }
    ELSE {}

\* The events the iterator may yield next under PARSE_OPTIONS.
NextTokens ==
    StartTokens \cup EndTokens \cup InnerTextTokens \cup CodeTokens \cup PassThroughTokens

\* The iterator yields tok: the tokenizer's own state after it.
Yield(tok) ==
    /\ input' = Append(input, tok)
    /\ stack' = CASE tok.ev = "Start" -> Append(stack, [tag |-> tok.tag, range |-> tok.range])
                  [] tok.ev = "End" -> SubSeq(stack, 1, Len(stack) - 1)
                  [] OTHER -> stack
    /\ pos' = CASE tok.ev = "Start" -> tok.range.start
                [] OTHER -> tok.range.end
    /\ UNCHANGED <<text, call, matches, called_before, document>>

(***************************************************************************)
(* impl From<pulldown_cmark::Tag> for MarkdownTag, on tags with all their  *)
(* fields.  A tag of the tokenizer holds its strings as CowStr; an owned   *)
(* tag holds them as SharedString, here the bytes.  An Option is a         *)
(* sequence of no or one element.                                          *)
(***************************************************************************)
\* The sequences over S of at most n elements
SeqsUpTo(S, n) == UNION { [1..k -> S] : k \in 0..n }

\* The strings of a tag of the tokenizer
TagStrs ==
    { CowStr("Borrowed", 0, <<1>>),
      CowStr("Boxed", MaxLen, <<2, 3>>),
      CowStr("Inlined", 0 - 1, <<>>) }

\* The keys and the values of the attributes of a heading
AttrStrs == { CowStr("Borrowed", 0, <<1>>), CowStr("Boxed", MaxLen, <<2, 3>>) }

\* The variants without a field
UnitKinds ==
    { "Paragraph", "Item", "TableHead", "TableRow", "TableCell", "Emphasis",
      "Strong", "Strikethrough", "HtmlBlock", "DefinitionList",
      "DefinitionListTitle", "DefinitionListDefinition" }

\* pulldown_cmark::Tag: every variant, its collections of at most MaxItems
\* elements.
PulldownTags ==
    { [kind |-> k] : k \in UnitKinds }
    \cup { [kind |-> "Heading", level |-> l, id |-> i, classes |-> c, attrs |-> a] :
             l \in {"H1", "H2"}, i \in SeqsUpTo(TagStrs, 1),
             c \in SeqsUpTo(TagStrs, MaxItems),
             a \in SeqsUpTo([key : AttrStrs, value : SeqsUpTo(AttrStrs, 1)], MaxItems) }
    \cup { [kind |-> "BlockQuote", block_quote_kind |-> q] :
             q \in SeqsUpTo({"Note", "Warning"}, 1) }
    \cup { [kind |-> "CodeBlock", code_block_kind |-> "Indented"] }
    \cup { [kind |-> "CodeBlock", code_block_kind |-> "Fenced", info |-> i] : i \in TagStrs }
    \cup { [kind |-> "List", start_number |-> n] : n \in SeqsUpTo({0, 1}, 1) }
    \cup { [kind |-> "FootnoteDefinition", label |-> l] : l \in TagStrs }
    \cup { [kind |-> "Table", alignments |-> a] :
             a \in SeqsUpTo({"None", "Left", "Right"}, MaxItems) }
    \cup { [kind |-> k, link_type |-> lt, dest_url |-> d, title |-> t, id |-> i] :
             k \in {"Link", "Image"}, lt \in {"Inline", "Autolink"},
             d \in TagStrs, t \in TagStrs, i \in TagStrs }
    \cup { [kind |-> "MetadataBlock", metadata_kind |-> m] :
             m \in {"YamlStyle", "PlusesStyle"} }

\* CowStr::into_string, SharedString::from: the bytes of the string
into_string(cow) == cow.str

\* Option::map(|v| SharedString::from(v.into_string())), and the same over
\* the elements of a Vec
MapStrs(cows) == [i \in 1..Len(cows) |-> into_string(cows[i])]

\* Vec::into_iter().map(..).collect() with the elements in reverse order
MapStrsReversed(cows) == [i \in 1..Len(cows) |-> into_string(cows[Len(cows) + 1 - i])]

\* MarkdownTagFrom with the classes of a heading collected in reverse order
MarkdownTagFromReversesClasses(tag) ==
    CASE tag.kind = "Heading" ->
            [kind |-> "Heading", level |-> tag.level, id |-> MapStrs(tag.id),
             classes |-> MapStrsReversed(tag.classes),
             attrs |-> [i \in 1..Len(tag.attrs) |->
                          [key |-> into_string(tag.attrs[i].key),
                           value |-> MapStrs(tag.attrs[i].value)]]]
      [] tag.kind = "BlockQuote" -> [kind |-> "BlockQuote"]
      [] tag.kind = "CodeBlock" /\ tag.code_block_kind = "Indented" ->
            [kind |-> "CodeBlock", code_block_kind |-> "Indented"]
      [] tag.kind = "CodeBlock" /\ tag.code_block_kind = "Fenced" ->
            [kind |-> "CodeBlock", code_block_kind |-> "Fenced",
             info |-> into_string(tag.info)]
      [] tag.kind = "List" -> [kind |-> "List", start_number |-> tag.start_number]
      [] tag.kind = "FootnoteDefinition" ->
            [kind |-> "FootnoteDefinition", label |-> into_string(tag.label)]
      [] tag.kind = "Table" -> [kind |-> "Table", alignments |-> tag.alignments]
      [] tag.kind \in {"Link", "Image"} ->
            [kind |-> tag.kind, link_type |-> tag.link_type,
             dest_url |-> into_string(tag.dest_url),
             title |-> into_string(tag.title),
             id |-> into_string(tag.id)]
      [] tag.kind = "MetadataBlock" ->
            [kind |-> "MetadataBlock", metadata_kind |-> tag.metadata_kind]
      [] tag.kind \in UnitKinds -> [kind |-> tag.kind]

\* Lines 323-404: MarkdownTag::from(tag), one case per arm of the match
MarkdownTagFrom(tag) ==
    CASE tag.kind = "Heading" ->
            [kind |-> "Heading", level |-> tag.level, id |-> MapStrs(tag.id),
             classes |-> MapStrs(tag.classes),
             attrs |-> [i \in 1..Len(tag.attrs) |->
                          [key |-> into_string(tag.attrs[i].key),
                           value |-> MapStrs(tag.attrs[i].value)]]]
      [] tag.kind = "BlockQuote" -> [kind |-> "BlockQuote"]
      [] tag.kind = "CodeBlock" /\ tag.code_block_kind = "Indented" ->
            [kind |-> "CodeBlock", code_block_kind |-> "Indented"]
      [] tag.kind = "CodeBlock" /\ tag.code_block_kind = "Fenced" ->
            [kind |-> "CodeBlock", code_block_kind |-> "Fenced",
             info |-> into_string(tag.info)]
      [] tag.kind = "List" -> [kind |-> "List", start_number |-> tag.start_number]
      [] tag.kind = "FootnoteDefinition" ->
            [kind |-> "FootnoteDefinition", label |-> into_string(tag.label)]
      [] tag.kind = "Table" -> [kind |-> "Table", alignments |-> tag.alignments]
      [] tag.kind \in {"Link", "Image"} ->
            [kind |-> tag.kind, link_type |-> tag.link_type,
             dest_url |-> into_string(tag.dest_url),
             title |-> into_string(tag.title),
             id |-> into_string(tag.id)]
      [] tag.kind = "MetadataBlock" ->
            [kind |-> "MetadataBlock", metadata_kind |-> tag.metadata_kind]
      [] tag.kind \in UnitKinds -> [kind |-> tag.kind]

\* A call of MarkdownTag::from: input holds the tag it is given, events the
\* tag it returns.
InitFrom ==
    /\ text = <<>>
    /\ call = "from"
    /\ pc = "loop"
    /\ stack = <<>>
    /\ pos = 0
    /\ input \in { <<tag>> : tag \in PulldownTags }
    /\ events = <<>>
    /\ languages = {}
    /\ within_link = FALSE
    /\ within_metadata = FALSE
    /\ substituted_text_range = Range(0, 0)
    /\ substituted_text_chunks = <<>>
    /\ errors_logged = 0
    /\ matches = <<>>
    /\ called_before = FALSE
    /\ document = "any"

\* Lines 324-403: from(tag) returns
From ==
    /\ call = "from"
    /\ pc = "loop"
    /\ events' = <<MarkdownTagFrom(input[1])>>
    /\ pc' = "done"
    /\ UNCHANGED <<text, call, stack, pos, input, languages, within_link,
                   within_metadata, substituted_text_range, substituted_text_chunks,
                   errors_logged, matches, called_before, document>>

\* MarkdownTag::from applied to any tag
SpecFrom == InitFrom /\ [][From]_vars

(***************************************************************************)
(* parse_markdown.                                                         *)
(***************************************************************************)
Init ==
    /\ text \in { Source(n) : n \in 0..MaxLen }
    /\ call \in {"parse_markdown", "parse_links_only"}
    /\ pc = "loop"
    /\ stack = <<>>
    /\ pos = 0
    /\ input = <<>>
    /\ events = <<>>
    /\ languages = {}
    /\ within_link = FALSE
    /\ within_metadata = FALSE
    /\ substituted_text_range = Range(0, 0)
    /\ substituted_text_chunks = <<>>
    /\ errors_logged = 0
    /\ matches = <<>>
    /\ called_before = FALSE
    /\ document = "any"

\* FlushBefore that flushes before no event
FlushBeforeNever(tok) == [events |-> events, chunks |-> substituted_text_chunks]

\* Lines 33-39: every event but a Text flushes the pending run first.
FlushBefore(tok) ==
    IF tok.ev # "Text"
    THEN flush_substituted_text(substituted_text_range, substituted_text_chunks, events)
    ELSE [events |-> events, chunks |-> substituted_text_chunks]

\* SkipMetadata with the flag cleared by the End of any element
SkipMetadataAnyEnd ==
    /\ within_metadata
    /\ \E tok \in NextTokens :
          /\ within_metadata' = ~(tok.ev = "End")
          /\ Yield(tok)
          /\ UNCHANGED <<pc, events, languages, within_link, substituted_text_range,
                         substituted_text_chunks, errors_logged>>

\* SkipMetadata with the links and the fenced code blocks of the metadata
\* block still looked at
SkipMetadataTracksTags ==
    /\ within_metadata
    /\ \E tok \in NextTokens :
          /\ within_metadata' = ~(tok.ev = "End" /\ tok.tag.kind = "MetadataBlock")
          /\ within_link' = CASE tok.ev = "Start" /\ tok.tag.kind = "Link" -> TRUE
                              [] tok.ev = "End" /\ tok.tag.kind = "Link" -> FALSE
                              [] OTHER -> within_link
          /\ languages' =
                 IF tok.ev = "Start" /\ tok.tag.kind = "CodeBlock"
                    /\ tok.tag.code_block_kind = "Fenced"
                 THEN languages \cup {tok.tag.lang}
                 ELSE languages
          /\ Yield(tok)
          /\ UNCHANGED <<pc, events, substituted_text_range,
                         substituted_text_chunks, errors_logged>>

\* Lines 25-32: inside a metadata block the event is dropped, and the end of
\* the block clears the flag.
SkipMetadata ==
    /\ within_metadata
    /\ \E tok \in NextTokens :
          /\ within_metadata' = ~(tok.ev = "End" /\ tok.tag.kind = "MetadataBlock")
          /\ Yield(tok)
          /\ UNCHANGED <<pc, events, languages, within_link, substituted_text_range,
                         substituted_text_chunks, errors_logged>>

\* ProcessStart with the language of every code block inserted
ProcessStartAnyCodeBlock ==
    \E tok \in StartTokens :
        /\ ~within_metadata
        /\ tok.ev = "Start"
        /\ LET flushed == FlushBefore(tok) IN
            /\ within_link' = IF tok.tag.kind = "Link" THEN TRUE ELSE within_link
            /\ within_metadata' =
                   IF tok.tag.kind = "MetadataBlock" THEN TRUE ELSE within_metadata
            /\ languages' =
                   IF tok.tag.kind = "CodeBlock"
                   THEN languages \cup {tok.tag.lang}
                   ELSE languages
            /\ events' = Append(flushed.events, StartEvent(tok.range, FromTag(tok.tag)))
            /\ substituted_text_chunks' = flushed.chunks
        /\ Yield(tok)
        /\ UNCHANGED <<pc, substituted_text_range, errors_logged>>

\* ProcessStart without the flush of the pending run before it
ProcessStartKeepsRun ==
    \E tok \in StartTokens :
        /\ ~within_metadata
        /\ tok.ev = "Start"
        /\ within_link' = IF tok.tag.kind = "Link" THEN TRUE ELSE within_link
        /\ within_metadata' =
               IF tok.tag.kind = "MetadataBlock" THEN TRUE ELSE within_metadata
        /\ languages' =
               IF tok.tag.kind = "CodeBlock" /\ tok.tag.code_block_kind = "Fenced"
               THEN languages \cup {tok.tag.lang}
               ELSE languages
        /\ events' = Append(events, StartEvent(tok.range, FromTag(tok.tag)))
        /\ Yield(tok)
        /\ UNCHANGED <<pc, substituted_text_range, substituted_text_chunks,
                       errors_logged>>

\* Lines 41-53: Event::Start(tag)
ProcessStart ==
    \E tok \in StartTokens :
        /\ ~within_metadata
        /\ tok.ev = "Start"
        /\ LET flushed == FlushBefore(tok) IN
            /\ within_link' = IF tok.tag.kind = "Link" THEN TRUE ELSE within_link
            /\ within_metadata' =
                   IF tok.tag.kind = "MetadataBlock" THEN TRUE ELSE within_metadata
            /\ languages' =
                   IF tok.tag.kind = "CodeBlock" /\ tok.tag.code_block_kind = "Fenced"
                   THEN languages \cup {tok.tag.lang}
                   ELSE languages
            /\ events' = Append(flushed.events, StartEvent(tok.range, FromTag(tok.tag)))
            /\ substituted_text_chunks' = flushed.chunks
        /\ Yield(tok)
        /\ UNCHANGED <<pc, substituted_text_range, errors_logged>>

\* ProcessEnd with the End of a link not pushed
ProcessEndSkipsLink ==
    \E tok \in EndTokens :
        /\ ~within_metadata
        /\ tok.ev = "End"
        /\ LET flushed == FlushBefore(tok) IN
            /\ within_link' = IF tok.tag.kind = "Link" THEN FALSE ELSE within_link
            /\ events' = IF tok.tag.kind = "Link"
                         THEN flushed.events
                         ELSE Append(flushed.events, EndEvent(tok.range, tok.tag.kind))
            /\ substituted_text_chunks' = flushed.chunks
        /\ Yield(tok)
        /\ UNCHANGED <<pc, languages, within_metadata, substituted_text_range,
                       errors_logged>>

\* Lines 54-59: Event::End(tag)
ProcessEnd ==
    \E tok \in EndTokens :
        /\ ~within_metadata
        /\ tok.ev = "End"
        /\ LET flushed == FlushBefore(tok) IN
            /\ within_link' = IF tok.tag.kind = "Link" THEN FALSE ELSE within_link
            /\ events' = Append(flushed.events, EndEvent(tok.range, tok.tag.kind))
            /\ substituted_text_chunks' = flushed.chunks
        /\ Yield(tok)
        /\ UNCHANGED <<pc, languages, within_metadata, substituted_text_range,
                       errors_logged>>

\* GenuineText with the scan for links run inside a link as well
GenuineTextAlwaysScans(tok) ==
    LET flushed == flush_substituted_text(substituted_text_range,
                                          substituted_text_chunks, events)
        after == AutolinkLoop(tok.links, tok.range, tok.range, flushed.events)
    IN /\ events' = IF after.range.start < after.range.end
                    THEN Append(after.events, TextEvent(after.range))
                    ELSE after.events
       /\ substituted_text_chunks' = flushed.chunks
       /\ UNCHANGED <<substituted_text_range, errors_logged>>

\* GenuineText with the pending run flushed behind the events of the text
GenuineTextFlushesLast(tok) ==
    LET after == IF ~within_link
                 THEN AutolinkLoop(tok.links, tok.range, tok.range, events)
                 ELSE [events |-> events, range |-> tok.range]
        pushed == IF after.range.start < after.range.end
                  THEN Append(after.events, TextEvent(after.range))
                  ELSE after.events
        flushed == flush_substituted_text(substituted_text_range,
                                          substituted_text_chunks, pushed)
    IN /\ events' = flushed.events
       /\ substituted_text_chunks' = flushed.chunks
       /\ UNCHANGED <<substituted_text_range, errors_logged>>

\* GenuineText without the test range.start < range.end before the last push
GenuineTextPushesEmpty(tok) ==
    LET flushed == flush_substituted_text(substituted_text_range,
                                          substituted_text_chunks, events)
        after == IF ~within_link
                 THEN AutolinkLoop(tok.links, tok.range, tok.range, flushed.events)
                 ELSE [events |-> flushed.events, range |-> tok.range]
    IN /\ events' = Append(after.events, TextEvent(after.range))
       /\ substituted_text_chunks' = flushed.chunks
       /\ UNCHANGED <<substituted_text_range, errors_logged>>

\* GenuineText with the chunks of the run it flushed left pending
GenuineTextKeepsChunks(tok) ==
    LET flushed == flush_substituted_text(substituted_text_range,
                                          substituted_text_chunks, events)
        after == IF ~within_link
                 THEN AutolinkLoop(tok.links, tok.range, tok.range, flushed.events)
                 ELSE [events |-> flushed.events, range |-> tok.range]
    IN /\ events' = IF after.range.start < after.range.end
                    THEN Append(after.events, TextEvent(after.range))
                    ELSE after.events
       /\ substituted_text_chunks' = substituted_text_chunks
       /\ UNCHANGED <<substituted_text_range, errors_logged>>

\* Lines 83-124: a Text that shares its bytes with the input
GenuineText(tok) ==
    LET flushed == flush_substituted_text(substituted_text_range,
                                          substituted_text_chunks, events)
        after == IF ~within_link
                 THEN AutolinkLoop(tok.links, tok.range, tok.range, flushed.events)
                 ELSE [events |-> flushed.events, range |-> tok.range]
    IN /\ events' = IF after.range.start < after.range.end
                    THEN Append(after.events, TextEvent(after.range))
                    ELSE after.events
       /\ substituted_text_chunks' = flushed.chunks
       /\ UNCHANGED <<substituted_text_range, errors_logged>>

\* SubstitutedText with the start of the range set by the first run only: a
\* later run keeps the start of the run before it
SubstitutedTextStartOfFirstRun(tok) ==
    /\ errors_logged' = IF Len(tok.cow.str) > 4 THEN errors_logged + 1 ELSE errors_logged
    /\ substituted_text_range' =
           Range(IF substituted_text_chunks = <<>> /\ substituted_text_range = Range(0, 0)
                 THEN tok.range.start
                 ELSE substituted_text_range.start,
                 tok.range.end)
    /\ substituted_text_chunks' = Append(substituted_text_chunks, tok.cow.str)
    /\ UNCHANGED events

\* SubstitutedText with the start of the range left as it was
SubstitutedTextKeepsStart(tok) ==
    /\ errors_logged' = IF Len(tok.cow.str) > 4 THEN errors_logged + 1 ELSE errors_logged
    /\ substituted_text_range' = Range(substituted_text_range.start, tok.range.end)
    /\ substituted_text_chunks' = Append(substituted_text_chunks, tok.cow.str)
    /\ UNCHANGED events

\* SubstitutedText with the chunks inside a link dropped
SubstitutedTextNotInLink(tok) ==
    /\ errors_logged' = IF Len(tok.cow.str) > 4 THEN errors_logged + 1 ELSE errors_logged
    /\ substituted_text_range' =
           IF within_link THEN substituted_text_range
           ELSE Range(IF substituted_text_chunks = <<>>
                      THEN tok.range.start
                      ELSE substituted_text_range.start,
                      tok.range.end)
    /\ substituted_text_chunks' =
           IF within_link THEN substituted_text_chunks
           ELSE Append(substituted_text_chunks, tok.cow.str)
    /\ UNCHANGED events

\* SubstitutedText with the diagnostic logged from four bytes on
SubstitutedTextLogsFour(tok) ==
    /\ errors_logged' = IF Len(tok.cow.str) >= 4 THEN errors_logged + 1 ELSE errors_logged
    /\ substituted_text_range' =
           Range(IF substituted_text_chunks = <<>>
                 THEN tok.range.start
                 ELSE substituted_text_range.start,
                 tok.range.end)
    /\ substituted_text_chunks' = Append(substituted_text_chunks, tok.cow.str)
    /\ UNCHANGED events

\* Lines 64-82: a Text that holds the result of a substitution
SubstitutedText(tok) ==
    /\ errors_logged' = IF Len(tok.cow.str) > 4 THEN errors_logged + 1 ELSE errors_logged
    /\ substituted_text_range' =
           Range(IF substituted_text_chunks = <<>>
                 THEN tok.range.start
                 ELSE substituted_text_range.start,
                 tok.range.end)
    /\ substituted_text_chunks' = Append(substituted_text_chunks, tok.cow.str)
    /\ UNCHANGED events

\* Lines 60-125: Event::Text(parsed)
TextArm(tok) ==
    /\ ~within_metadata
    /\ tok.ev = "Text"
    /\ IF ~cow_str_points_inside(tok.cow, text)
       THEN SubstitutedText(tok)
       ELSE GenuineText(tok)
    /\ Yield(tok)
    /\ UNCHANGED <<pc, languages, within_link, within_metadata>>

ProcessText == \E tok \in InnerTextTokens : TextArm(tok)

\* ProcessCode with two bytes taken off each side
ProcessCodeShrinksTwo ==
    \E tok \in CodeTokens :
        /\ ~within_metadata
        /\ tok.ev = "Code"
        /\ LET flushed == FlushBefore(tok) IN
            /\ events' = Append(flushed.events,
                                LeafEvent(Range(tok.range.start + 2, tok.range.end - 2),
                                          "Code", FALSE))
            /\ substituted_text_chunks' = flushed.chunks
        /\ Yield(tok)
        /\ UNCHANGED <<pc, languages, within_link, within_metadata,
                       substituted_text_range, errors_logged>>

\* ProcessCode with the range pushed as the tokenizer gave it
ProcessCodeKeepsRange ==
    \E tok \in CodeTokens :
        /\ ~within_metadata
        /\ tok.ev = "Code"
        /\ LET flushed == FlushBefore(tok) IN
            /\ events' = Append(flushed.events, LeafEvent(tok.range, "Code", FALSE))
            /\ substituted_text_chunks' = flushed.chunks
        /\ Yield(tok)
        /\ UNCHANGED <<pc, languages, within_link, within_metadata,
                       substituted_text_range, errors_logged>>

\* ProcessCode with the end of the range moved the wrong way
ProcessCodeGrowsEnd ==
    \E tok \in CodeTokens :
        /\ ~within_metadata
        /\ tok.ev = "Code"
        /\ LET flushed == FlushBefore(tok) IN
            /\ events' = Append(flushed.events,
                                LeafEvent(Range(tok.range.start + 1, tok.range.end + 1),
                                          "Code", FALSE))
            /\ substituted_text_chunks' = flushed.chunks
        /\ Yield(tok)
        /\ UNCHANGED <<pc, languages, within_link, within_metadata,
                       substituted_text_range, errors_logged>>

\* The same arm, for a Text event over no bytes
ProcessEmptyText == \E tok \in EmptyTextTokens : TextArm(tok)

\* Lines 126-130: Event::Code(_)
ProcessCode ==
    \E tok \in CodeTokens :
        /\ ~within_metadata
        /\ tok.ev = "Code"
        /\ LET flushed == FlushBefore(tok) IN
            /\ events' = Append(flushed.events,
                                LeafEvent(Range(tok.range.start + 1, tok.range.end - 1),
                                          "Code", FALSE))
            /\ substituted_text_chunks' = flushed.chunks
        /\ Yield(tok)
        /\ UNCHANGED <<pc, languages, within_link, within_metadata,
                       substituted_text_range, errors_logged>>

\* ProcessPassThrough with the boolean of a TaskListMarker dropped
ProcessPassThroughUnchecked ==
    \E tok \in PassThroughTokens :
        /\ ~within_metadata
        /\ tok.ev \in PassThroughKinds \cup {"TaskListMarker"}
        /\ LET flushed == FlushBefore(tok) IN
            /\ events' = Append(flushed.events, LeafEvent(tok.range, tok.ev, FALSE))
            /\ substituted_text_chunks' = flushed.chunks
        /\ Yield(tok)
        /\ UNCHANGED <<pc, languages, within_link, within_metadata,
                       substituted_text_range, errors_logged>>

\* Lines 131-141: Html, InlineHtml, FootnoteReference, SoftBreak, HardBreak,
\* Rule and TaskListMarker(checked) are pushed as they are
ProcessPassThrough ==
    \E tok \in PassThroughTokens :
        /\ ~within_metadata
        /\ tok.ev \in PassThroughKinds \cup {"TaskListMarker"}
        /\ LET flushed == FlushBefore(tok) IN
            /\ events' = Append(flushed.events, LeafEvent(tok.range, tok.ev, tok.checked))
            /\ substituted_text_chunks' = flushed.chunks
        /\ Yield(tok)
        /\ UNCHANGED <<pc, languages, within_link, within_metadata,
                       substituted_text_range, errors_logged>>

\* Line 142: InlineMath and DisplayMath push nothing
ProcessMath ==
    \E tok \in MathTokens :
        /\ ~within_metadata
        /\ LET flushed == FlushBefore(tok) IN
            /\ events' = flushed.events
            /\ substituted_text_chunks' = flushed.chunks
        /\ Yield(tok)
        /\ UNCHANGED <<pc, languages, within_link, within_metadata,
                       substituted_text_range, errors_logged>>

\* Lines 144-145: the iterator is exhausted (every element it opened is
\* closed) and parse_markdown returns (events, languages)
Return ==
    /\ call = "parse_markdown"
    /\ pc = "loop"
    /\ stack = <<>>
    /\ pc' = "done"
    /\ UNCHANGED <<text, call, stack, pos, input, events, languages, within_link,
                   within_metadata, substituted_text_range, substituted_text_chunks,
                   errors_logged, matches, called_before, document>>

\* Lines 164-199: parse_links_only(text)
ParseLinksOnly ==
    /\ call = "parse_links_only"
    /\ pc = "loop"
    /\ \E links \in Links(text) :
          /\ matches' = links
          /\ events' = parse_links_only(text, links)
    /\ pc' = "done"
    /\ UNCHANGED <<text, call, stack, pos, input, languages, within_link,
                   within_metadata, substituted_text_range, substituted_text_chunks,
                   errors_logged, called_before, document>>

\* CallAgain with the language set of the call before kept
CallAgainKeepsLanguages ==
    /\ pc = "done"
    /\ text' \in { Source(n) : n \in 0..MaxAgainLen }
    /\ call' \in {"parse_markdown", "parse_links_only"}
    /\ pc' = "loop"
    /\ stack' = <<>>
    /\ pos' = 0
    /\ input' = <<>>
    /\ events' = <<>>
    /\ languages' = languages
    /\ within_link' = FALSE
    /\ within_metadata' = FALSE
    /\ substituted_text_range' = Range(0, 0)
    /\ substituted_text_chunks' = <<>>
    /\ errors_logged' = 0
    /\ matches' = <<>>
    /\ called_before' = TRUE
    /\ document' = document

\* Lines 17-23 and 164-171: a call has returned and parse_markdown or
\* parse_links_only is called again, on any text of at most MaxAgainLen
\* bytes; the locals of the new call are created afresh.
CallAgain ==
    /\ pc = "done"
    /\ text' \in { Source(n) : n \in 0..MaxAgainLen }
    /\ call' \in {"parse_markdown", "parse_links_only"}
    /\ pc' = "loop"
    /\ stack' = <<>>
    /\ pos' = 0
    /\ input' = <<>>
    /\ events' = <<>>
    /\ languages' = {}
    /\ within_link' = FALSE
    /\ within_metadata' = FALSE
    /\ substituted_text_range' = Range(0, 0)
    /\ substituted_text_chunks' = <<>>
    /\ errors_logged' = 0
    /\ matches' = <<>>
    /\ called_before' = TRUE
    /\ document' = document

Next ==
    \/ SkipMetadata
    \/ ProcessStart
    \/ ProcessEnd
    \/ ProcessText
    \/ ProcessCode
    \/ ProcessPassThrough
    \/ Return
    \/ ParseLinksOnly

Spec == Init /\ [][Next]_vars

\* parse_markdown over the streams of Spec with, in addition, Text events over
\* no bytes.
NextEmptyText == Next \/ ProcessEmptyText

SpecEmptyText == Init /\ [][NextEmptyText]_vars

\* mod tests (lines 420-503): a test starts.  The tests of the options read
\* no text; the other tests call parse_markdown.
InitTests ==
    \/ Init
    \/ /\ text = <<>>
       /\ call \in {"all_options_considered", "wanted_and_unwanted_options_disjoint"}
       /\ pc = "loop"
       /\ stack = <<>>
       /\ pos = 0
       /\ input = <<>>
       /\ events = <<>>
       /\ languages = {}
       /\ within_link = FALSE
       /\ within_metadata = FALSE
       /\ substituted_text_range = Range(0, 0)
       /\ substituted_text_chunks = <<>>
       /\ errors_logged = 0
       /\ matches = <<>>
       /\ called_before = FALSE
       /\ document = "any"

\* Lines 430-435: the test passes, or its assert_eq! panics
all_options_considered ==
    /\ call = "all_options_considered"
    /\ pc = "loop"
    /\ pc' = IF PARSE_OPTIONS \cup UNWANTED_OPTIONS = OptionsAll THEN "done" ELSE "panicked"
    /\ UNCHANGED <<text, call, stack, pos, input, events, languages, within_link,
                   within_metadata, substituted_text_range, substituted_text_chunks,
                   errors_logged, matches, called_before, document>>

\* Lines 437-443: the test passes, or its assert_eq! panics
wanted_and_unwanted_options_disjoint ==
    /\ call = "wanted_and_unwanted_options_disjoint"
    /\ pc = "loop"
    /\ pc' = IF PARSE_OPTIONS \cap UNWANTED_OPTIONS = OptionsEmpty THEN "done" ELSE "panicked"
    /\ UNCHANGED <<text, call, stack, pos, input, events, languages, within_link,
                   within_metadata, substituted_text_range, substituted_text_chunks,
                   errors_logged, matches, called_before, document>>

\* The tests of the module, each on its own
NextTests == Next \/ all_options_considered \/ wanted_and_unwanted_options_disjoint

SpecTests == InitTests /\ [][NextTests]_vars

\* parse_markdown on a text of paragraphs and metadata blocks, whose stream
\* is followed for one event more.
InitRuns ==
    /\ text \in { Source(n) : n \in 0..MaxLen }
    /\ call = "parse_markdown"
    /\ pc = "loop"
    /\ stack = <<>>
    /\ pos = 0
    /\ input = <<>>
    /\ events = <<>>
    /\ languages = {}
    /\ within_link = FALSE
    /\ within_metadata = FALSE
    /\ substituted_text_range = Range(0, 0)
    /\ substituted_text_chunks = <<>>
    /\ errors_logged = 0
    /\ matches = <<>>
    /\ called_before = FALSE
    /\ document = "paragraphs"

NextRuns ==
    \/ SkipMetadata
    \/ ProcessStart
    \/ ProcessEnd
    \/ ProcessText
    \/ ProcessCode
    \/ ProcessPassThrough
    \/ Return

SpecRuns == InitRuns /\ [][NextRuns]_vars

\* parse_markdown and parse_links_only on the texts of characters of one and
\* two bytes.
InitChars ==
    /\ text \in UNION { Texts(n) : n \in 0..MaxLen }
    /\ call \in {"parse_markdown", "parse_links_only"}
    /\ pc = "loop"
    /\ stack = <<>>
    /\ pos = 0
    /\ input = <<>>
    /\ events = <<>>
    /\ languages = {}
    /\ within_link = FALSE
    /\ within_metadata = FALSE
    /\ substituted_text_range = Range(0, 0)
    /\ substituted_text_chunks = <<>>
    /\ errors_logged = 0
    /\ matches = <<>>
    /\ called_before = FALSE
    /\ document = "any"

SpecChars == InitChars /\ [][Next]_vars

\* Calls of parse_markdown and parse_links_only one after the other.
NextCalls == Next \/ CallAgain

SpecCalls == Init /\ [][NextCalls]_vars

(***************************************************************************)
(* What the properties below speak of.                                     *)
(***************************************************************************)
\* The call of parse_markdown has returned.
Returned == call = "parse_markdown" /\ pc = "done"

\* This step consumed an event of the tokenizer; Tok is that event and
\* Emitted the events the step appended to the output.
Yielded == input' # input
Tok == input'[Len(input')]
Emitted == SubSeq(events', Len(events) + 1, Len(events'))
Extends == Len(events') >= Len(events) /\ SubSeq(events', 1, Len(events)) = events

IsStartOf(e, kind) == e.ev = "Start" /\ e.tag.kind = kind
IsEndOf(e, kind) == e.ev = "End" /\ e.tag.kind = kind
\* The test of the Text arm: the slice of the event points inside the input
\* (genuine) or does not (substituted).  Only the address decides, neither
\* the range of the event nor the bytes of the slice.
IsGenuine(tok) == tok.ev = "Text" /\ cow_str_points_inside(tok.cow, text)
IsSubstituted(tok) == tok.ev = "Text" /\ ~cow_str_points_inside(tok.cow, text)

RECURSIVE FlagsAfter(_)
\* The input stream read on its own: after the events inp, meta tells whether
\* a metadata block is being skipped (a Start(MetadataBlock) was read and no
\* End(MetadataBlock) since), link whether the last Start(Link) or End(Link)
\* read outside a metadata block was a Start.
FlagsAfter(inp) ==
    IF inp = <<>> THEN [meta |-> FALSE, link |-> FALSE]
    ELSE LET before == FlagsAfter(SubSeq(inp, 1, Len(inp) - 1))
             last == inp[Len(inp)]
         IN IF before.meta
            THEN [meta |-> ~IsEndOf(last, "MetadataBlock"), link |-> before.link]
            ELSE [meta |-> IsStartOf(last, "MetadataBlock"),
                  link |-> (IsStartOf(last, "Link")
                            \/ (before.link /\ ~IsEndOf(last, "Link")))]

RECURSIVE OpenAfter(_, _)
\* Scanning evs with a stack st of tag kinds: the stack left at the end, or
\* <<"mismatch">> pushed for good once an End does not match the most recent
\* unmatched Start.
OpenAfter(evs, st) ==
    IF evs = <<>> THEN st
    ELSE LET e == Head(evs) IN
         IF st # <<>> /\ st[Len(st)] = "mismatch" THEN st
         ELSE IF e.ev = "Start" THEN OpenAfter(Tail(evs), Append(st, e.tag.kind))
         ELSE IF e.ev = "End"
              THEN IF st # <<>> /\ st[Len(st)] = e.tag.kind
                   THEN OpenAfter(Tail(evs), SubSeq(st, 1, Len(st) - 1))
                   ELSE <<"mismatch">>
         ELSE OpenAfter(Tail(evs), st)

Balanced(evs) == OpenAfter(evs, <<>>) = <<>>

(***************************************************************************)
(* C1.  For every input stream whose Start/End events are balanced and     *)
(* properly nested, the Start/End events of the output of parse_markdown   *)
(* are balanced and properly nested: scanned with a stack, every End       *)
(* matches the most recent unmatched Start and the stack is empty at the   *)
(* end.  (The tokenizer's stream is balanced whenever the call returns.)   *)
(* The code pushes Start(MetadataBlock) and drops its End, so this fails.  *)
(***************************************************************************)
C1_OutputBalanced == Returned => Balanced(events)

(***************************************************************************)
(* C2.  The output of parse_markdown never contains a Start(MetadataBlock) *)
(* or an End(MetadataBlock) event.  The code pushes the Start (line 52).   *)
(***************************************************************************)
C2_NoMetadataBlockEvent ==
    call = "parse_markdown" =>
        \A i \in 1..Len(events) :
            ~IsStartOf(events[i], "MetadataBlock") /\ ~IsEndOf(events[i], "MetadataBlock")

(***************************************************************************)
(* C3.  Every event that arrives after a Start(MetadataBlock), up to and   *)
(* including the next End(MetadataBlock), adds nothing to the output,      *)
(* whatever its kind; the skipping stops exactly with that                 *)
(* End(MetadataBlock), and starts only with a Start(MetadataBlock), so the *)
(* event after the block is processed as usual.                            *)
(***************************************************************************)
C3_MetadataSuppressed ==
    [][Yielded =>
        /\ within_metadata = FlagsAfter(input).meta
        /\ within_metadata' = FlagsAfter(input').meta
        /\ FlagsAfter(input).meta => events' = events
      ]_vars

\* A Text, then the End(MetadataBlock), arrived inside a metadata block and
\* added nothing; the Rule behind the block was pushed.
C3_Witness ==
    /\ Len(input) = 4
    /\ IsStartOf(input[1], "MetadataBlock")
    /\ input[2].ev = "Text"
    /\ IsEndOf(input[3], "MetadataBlock")
    /\ input[4].ev = "Rule"
    /\ Len(events) = 2
    /\ events[2] = LeafEvent(input[4].range, "Rule", FALSE)
    /\ ~within_metadata

\* The events of this step behind the SubstitutedText of a run it flushed.
Body ==
    IF substituted_text_chunks # <<>> /\ Emitted # <<>>
       /\ Emitted[1].ev = "SubstitutedText"
    THEN Tail(Emitted)
    ELSE Emitted

\* This step processed, outside a metadata block, a Text that shares its
\* bytes with the input.
GenuineTextStep == Yielded /\ ~FlagsAfter(input).meta /\ IsGenuine(Tok)

IsTextEvent(e) == e.ev = "Text"
IsStartEvent(e) == e.ev = "Start"
IsSubstitutedTextEvent(e) == e.ev = "SubstitutedText"
IsRangedLeaf(e) == e.ev \in {"Text", "SubstitutedText", "Code", "Html", "InlineHtml"}

(***************************************************************************)
(* C4.  As claimed: for every genuine Text event that arrives while an     *)
(* explicit Link or Image is open, parse_markdown emits no                 *)
(* Start(Link{Autolink}) and a single Text event over the full range.      *)
(* Only Start(Link) sets within_link (line 43) and every End(Link) clears  *)
(* it (line 56), so text in an image, and text behind a link nested in a   *)
(* link, is scanned.                                                       *)
(***************************************************************************)
C4_NoRescanInLinkOrImage ==
    [][(GenuineTextStep /\ \E i \in 1..Len(stack) : stack[i].tag.kind \in {"Link", "Image"})
          => Body = <<TextEvent(Tok.range)>>
      ]_vars

(***************************************************************************)
(* C4, amended.  For every genuine Text event processed after a            *)
(* Start(Link) with no End(Link) processed since (within_link is true),    *)
(* parse_markdown emits no Start(Link{Autolink}) and a single Text event   *)
(* over the full range, whatever the scanner would find in it.             *)
(***************************************************************************)
C4_NoRescanWithinLink ==
    [][(GenuineTextStep /\ FlagsAfter(input).link) => Body = <<TextEvent(Tok.range)>>]_vars

\* A text in which the scanner finds a link arrived right behind a
\* Start(Link) and was pushed as one Text event.
C4_Witness ==
    /\ Len(input) >= 2 /\ Len(events) >= 2
    /\ IsStartOf(input[Len(input) - 1], "Link")
    /\ IsGenuine(input[Len(input)])
    /\ input[Len(input)].links # <<>>
    /\ within_link /\ ~within_metadata
    /\ IsStartOf(events[Len(events) - 1], "Link")
    /\ events[Len(events)] = TextEvent(input[Len(input)].range)

(***************************************************************************)
(* C5.  A genuine Text event over [s,e) processed while within_link is     *)
(* false, with the scanner returning the spans l1..ln of it: the events    *)
(* pushed are Text, Start and End events; the Start events are, in order,  *)
(* one per span, Start(Link{Autolink, dest_url = the text of the span,     *)
(* title and id empty}) over the span, each followed at once by Text over  *)
(* the span and End(Link); and the ranges of the Text events, in order,    *)
(* are non-empty, contiguous and partition [s,e) (so a Text covers each    *)
(* non-empty gap before a span and behind the last one).                   *)
(***************************************************************************)
C5_SplitOk(body, tok) ==
    LET abs(i) == Range(tok.range.start + tok.links[i].start,
                        tok.range.start + tok.links[i].end)
        texts == SelectSeq(body, IsTextEvent)
        starts == SelectSeq(body, IsStartEvent)
    IN /\ \A k \in 1..Len(body) : body[k].ev \in {"Text", "Start", "End"}
       /\ Len(starts) = Len(tok.links)
       /\ \A i \in 1..Len(starts) :
            starts[i] = StartEvent(abs(i), LinkTag("Autolink", Slice(text, abs(i)), <<>>, <<>>))
       /\ \A k \in 1..Len(body) :
            /\ body[k].ev = "Start" =>
                 /\ k + 2 <= Len(body)
                 /\ body[k + 1] = TextEvent(body[k].range)
                 /\ body[k + 2] = EndEvent(body[k].range, "Link")
            /\ body[k].ev = "End" => k >= 3 /\ body[k - 2].ev = "Start"
       /\ texts # <<>>
       /\ texts[1].range.start = tok.range.start
       /\ texts[Len(texts)].range.end = tok.range.end
       /\ \A j \in 1..Len(texts) :
            /\ texts[j].range.start < texts[j].range.end
            /\ j < Len(texts) => texts[j + 1].range.start = texts[j].range.end

C5_AutolinkSplit ==
    [][(GenuineTextStep /\ ~FlagsAfter(input).link) => C5_SplitOk(Body, Tok)]_vars

\* A text over [0,3) with one link over [1,2): gap, link, remainder.
C5_Witness ==
    /\ Len(input) = 2 /\ Len(events) = 6
    /\ IsStartOf(input[1], "Paragraph")
    /\ IsGenuine(input[2]) /\ input[2].range = Range(0, 3)
    /\ Len(input[2].links) = 1 /\ input[2].links[1].start = 1 /\ input[2].links[1].end = 2
    /\ events[2] = TextEvent(Range(0, 1))
    /\ events[3] = StartEvent(Range(1, 2), LinkTag("Autolink", <<2>>, <<>>, <<>>))
    /\ events[4] = TextEvent(Range(1, 2))
    /\ events[5] = EndEvent(Range(1, 2), "Link")
    /\ events[6] = TextEvent(Range(2, 3))

(***************************************************************************)
(* C6.  In the output the ranges of the Text, SubstitutedText, Code, Html  *)
(* and InlineHtml events, in the order they were pushed, do not overlap    *)
(* and do not go back: each starts at or behind the end of the one before. *)
(***************************************************************************)
C6_LeafRangesMonotonic ==
    LET leaves == SelectSeq(events, IsRangedLeaf)
    IN \A i \in 1..(Len(leaves) - 1) : leaves[i + 1].range.start >= leaves[i].range.end

\* A flushed run, then the Text events of a text split around a link.
C6_Witness ==
    LET leaves == SelectSeq(events, IsRangedLeaf)
    IN /\ call = "parse_markdown"
       /\ Len(leaves) >= 3
       /\ leaves[1].ev = "SubstitutedText"
       /\ leaves[2].ev = "Text" /\ leaves[3].ev = "Text"
       /\ \E i \in 1..Len(events) : IsStartOf(events[i], "Link") /\ events[i].tag.link_type = "Autolink"

(***************************************************************************)
(* C7.  Every range pushed by parse_markdown and by parse_links_only       *)
(* satisfies 0 <= start <= end <= len(text): the Code range shrunk by one  *)
(* on each side (a code span holds its two delimiters), the range of a     *)
(* SubstitutedText run, and the gap, link and remainder ranges of the      *)
(* autolink splitting included.                                            *)
(***************************************************************************)
C7_RangesInBounds ==
    \A i \in 1..Len(events) :
        /\ 0 <= events[i].range.start
        /\ events[i].range.start <= events[i].range.end
        /\ events[i].range.end <= Len(text)

\* A shrunk Code range and the range of a flushed run are in the output.
C7_Witness ==
    /\ Returned
    /\ \E i \in 1..Len(events) : events[i].ev = "Code" /\ events[i].range = Range(1, 1)
    /\ \E i \in 1..Len(events) : events[i].ev = "SubstitutedText" /\ events[i].range = Range(2, 3)

(***************************************************************************)
(* Runs of substituted chunks, read off the input stream alone.            *)
(***************************************************************************)
RECURSIVE RunsOf(_)
\* The maximal runs of consecutive substituted Text chunks of the stream inp,
\* in order, as the positions of their first and last chunk.  The events of a
\* metadata block behind its Start are discarded; they are in no run.
RunsOf(inp) ==
    IF inp = <<>> THEN <<>>
    ELSE LET n == Len(inp)
             before == SubSeq(inp, 1, n - 1)
             runs == RunsOf(before)
         IN IF FlagsAfter(before).meta \/ ~IsSubstituted(inp[n]) THEN runs
            ELSE IF runs # <<>> /\ runs[Len(runs)].last = n - 1
                 THEN [runs EXCEPT ![Len(runs)].last = n]
                 ELSE Append(runs, [first |-> n, last |-> n])

RECURSIVE Payload(_, _)
\* The replacement strings of the chunks a..b, concatenated in arrival order.
Payload(a, b) == IF a > b THEN <<>> ELSE input[a].cow.str \o Payload(a + 1, b)

\* The one event a run is to yield.
RunEvent(r) ==
    SubstitutedTextEvent(Range(input[r.first].range.start, input[r.last].range.end),
                         Payload(r.first, r.last))

\* A run is closed once an event was processed behind its last chunk.
IsClosedRun(r) == r.last < Len(input)

RECURSIVE Payloads(_)
\* The payloads of the SubstitutedText events of evs, concatenated.
Payloads(evs) ==
    IF evs = <<>> THEN <<>>
    ELSE (IF Head(evs).ev = "SubstitutedText" THEN Head(evs).str ELSE <<>>)
         \o Payloads(Tail(evs))

RECURSIVE RunPayloads(_)
\* The payloads of the runs rs, concatenated.
RunPayloads(rs) ==
    IF rs = <<>> THEN <<>>
    ELSE Payload(Head(rs).first, Head(rs).last) \o RunPayloads(Tail(rs))

(***************************************************************************)
(* C8.  Each maximal run of consecutive substituted Text chunks yields     *)
(* exactly one SubstitutedText event: the SubstitutedText events of the    *)
(* output are, in order, one per run behind which an event was processed,  *)
(* with the concatenation of the run's replacement strings as payload and  *)
(* [start of its first chunk, end of its last chunk) as range; a run still *)
(* being accumulated has that same range and those chunks pending, its     *)
(* start taken from its own first chunk and not from a run before.         *)
(***************************************************************************)
C8_OneEventPerRun ==
    call = "parse_markdown" =>
        LET runs == RunsOf(input)
            closed == SelectSeq(runs, IsClosedRun)
            emitted == SelectSeq(events, IsSubstitutedTextEvent)
        IN /\ Len(emitted) = Len(closed)
           /\ \A k \in 1..Len(closed) : emitted[k] = RunEvent(closed[k])
           /\ \A k \in 1..Len(runs) :
                ~IsClosedRun(runs[k]) =>
                    /\ substituted_text_range = RunEvent(runs[k]).range
                    /\ Concat(substituted_text_chunks) = RunEvent(runs[k]).str
           /\ Returned => Len(closed) = Len(runs)

\* Two runs in one paragraph, a genuine Text between them: each was emitted
\* as one event with the range of its own chunk, the second one flushed by
\* the End of the paragraph.
C8_Witness ==
    /\ Returned
    /\ Len(input) = 5 /\ Len(events) = 5
    /\ IsStartOf(input[1], "Paragraph")
    /\ IsSubstituted(input[2]) /\ IsGenuine(input[3]) /\ IsSubstituted(input[4])
    /\ input[3].links = <<>>
    /\ input[2].range.start < input[4].range.start
    /\ input[2].cow.str # input[4].cow.str
    /\ events[2] = SubstitutedTextEvent(input[2].range, input[2].cow.str)
    /\ events[3] = TextEvent(input[3].range)
    /\ events[4] = SubstitutedTextEvent(input[4].range, input[4].cow.str)

(***************************************************************************)
(* C9.  When parse_markdown returns, no run of substituted chunks is still *)
(* pending: every substituted chunk that was accumulated outside a         *)
(* metadata block is contained in the payload of an emitted                *)
(* SubstitutedText event, the chunks of the last run of the stream as      *)
(* well.  The loop is followed by the return (lines 144-146) with no flush *)
(* of its own; the last run is flushed by the event behind it, and the     *)
(* tokenizer ends every stream with the End of the block that holds the    *)
(* last text.                                                              *)
(***************************************************************************)
C9_FlushedAtEnd ==
    Returned =>
        /\ Payloads(events) = RunPayloads(RunsOf(input))
        /\ substituted_text_chunks = <<>>

\* The stream ends with a run of two chunks and the End of its paragraph:
\* the run is in the output, before the End, and nothing is pending.
C9_Witness ==
    /\ Returned
    /\ Len(input) = 5 /\ Len(events) = 4
    /\ IsStartOf(input[1], "Paragraph") /\ IsGenuine(input[2])
    /\ IsSubstituted(input[3]) /\ IsSubstituted(input[4])
    /\ IsEndOf(input[5], "Paragraph")
    /\ events[3] = SubstitutedTextEvent(Range(input[3].range.start, input[4].range.end),
                                        input[3].cow.str \o input[4].cow.str)
    /\ events[4] = EndEvent(input[1].range, "Paragraph")
    /\ substituted_text_chunks = <<>>

(***************************************************************************)
(* C10.  Whenever a non-Text event or a genuine Text event is processed    *)
(* while a run of substituted chunks is pending, the SubstitutedText event *)
(* of that run is the first event the step appends, none follows it in the *)
(* step, and the run is cleared; a step only ever appends to the output,   *)
(* and a substituted chunk appends nothing.  So the event of a run stands  *)
(* behind everything emitted for the events before its first chunk and     *)
(* before everything emitted for the events behind its last chunk.         *)
(***************************************************************************)
C10_FlushedFirst ==
    [][Yielded =>
        /\ Extends
        /\ (~FlagsAfter(input).meta /\ IsSubstituted(Tok)) => Emitted = <<>>
        /\ (~FlagsAfter(input).meta /\ ~IsSubstituted(Tok)
              /\ SelectSeq(RunsOf(input), IsClosedRun) # RunsOf(input)) =>
              LET runs == RunsOf(input) IN
              /\ Emitted # <<>>
              /\ Emitted[1] = RunEvent(runs[Len(runs)])
              /\ SelectSeq(Tail(Emitted), IsSubstitutedTextEvent) = <<>>
              /\ substituted_text_chunks' = <<>>
      ]_vars

\* A run was flushed by a genuine Text with a link in it: the SubstitutedText
\* stands before the Text and link events of that text.
C10_Witness ==
    /\ Len(input) = 3 /\ Len(events) >= 5
    /\ IsSubstituted(input[2]) /\ IsGenuine(input[3]) /\ input[3].links # <<>>
    /\ events[2] = SubstitutedTextEvent(input[2].range, input[2].cow.str)
    /\ \A k \in 3..Len(events) : events[k].ev \in {"Text", "Start", "End"}
    /\ substituted_text_chunks = <<>>

(***************************************************************************)
(* C11.  A genuine Text event (its slice points inside the input)          *)
(* processed outside a metadata block: if its range is not empty           *)
(* and within_link is true or the scanner finds no span in it, the step    *)
(* appends, behind the SubstitutedText of a run it flushed, exactly one    *)
(* Text event over the full range and nothing else; if its range is empty  *)
(* the step appends nothing.                                               *)
(***************************************************************************)
C11_SingleTextOrNothing ==
    [][GenuineTextStep =>
          /\ (Tok.range.start < Tok.range.end /\ (FlagsAfter(input).link \/ Tok.links = <<>>))
                => Body = <<TextEvent(Tok.range)>>
          /\ Tok.range.start = Tok.range.end => Body = <<>>
      ]_vars

\* A text of one byte with no link in it was pushed as one Text event, and the
\* empty text behind it pushed nothing.
C11_Witness ==
    /\ Len(input) = 3 /\ Len(events) = 2
    /\ IsStartOf(input[1], "Paragraph")
    /\ IsGenuine(input[2]) /\ input[2].range = Range(0, 1) /\ input[2].links = <<>>
    /\ IsGenuine(input[3]) /\ input[3].range = Range(1, 1)
    /\ events[2] = TextEvent(Range(0, 1))
    /\ ~within_link /\ ~within_metadata

\* This step processed, outside a metadata block, an event of the stream.
ProcessedStep == Yielded /\ ~FlagsAfter(input).meta

(***************************************************************************)
(* C12.  For every Code event with range [s,e) processed outside a         *)
(* metadata block, the step appends, behind the SubstitutedText of a run   *)
(* it flushed, exactly one event: Code over [s+1, e-1), the range without  *)
(* its first and its last byte.                                            *)
(***************************************************************************)
C12_CodeShrunk ==
    [][(ProcessedStep /\ Tok.ev = "Code") =>
          Body = <<LeafEvent(Range(Tok.range.start + 1, Tok.range.end - 1), "Code", FALSE)>>
      ]_vars

\* A code span over [0,3) was pushed as Code over [1,2).
C12_Witness ==
    /\ Len(input) = 2 /\ Len(events) = 2
    /\ input[2].ev = "Code" /\ input[2].range = Range(0, 3)
    /\ events[2] = LeafEvent(Range(1, 2), "Code", FALSE)

RECURSIVE FencedScan(_)
\* Reading the stream inp on its own: meta tells whether a metadata block is
\* being skipped at its end, langs holds the languages of the
\* Start(CodeBlock(Fenced(lang))) events read outside metadata blocks.
FencedScan(inp) ==
    IF inp = <<>> THEN [meta |-> FALSE, langs |-> {}]
    ELSE LET before == FencedScan(SubSeq(inp, 1, Len(inp) - 1))
             last == inp[Len(inp)]
         IN IF before.meta
            THEN [before EXCEPT !.meta = ~IsEndOf(last, "MetadataBlock")]
            ELSE [meta |-> IsStartOf(last, "MetadataBlock"),
                  langs |-> before.langs \cup
                            (IF IsStartOf(last, "CodeBlock")
                                /\ last.tag.code_block_kind = "Fenced"
                             THEN {last.tag.lang}
                             ELSE {})]

FencedLanguages(inp) == FencedScan(inp).langs

(***************************************************************************)
(* C13.  The language set of parse_markdown is, at every point and so at   *)
(* the return, exactly the set of the languages of the                     *)
(* Start(CodeBlock(Fenced(lang))) events processed outside metadata        *)
(* blocks, the empty string of a fence without language included; an       *)
(* indented code block and every other event add nothing.                  *)
(***************************************************************************)
C13_LanguagesExact == languages = FencedLanguages(input)

\* Returned after two fenced blocks without language: the set holds the empty
\* string, once.
C13_Witness ==
    /\ Returned
    /\ languages = {""}
    /\ Len(input) = 4
    /\ IsStartOf(input[1], "CodeBlock") /\ input[1].tag.code_block_kind = "Fenced"
    /\ IsEndOf(input[2], "CodeBlock")
    /\ IsStartOf(input[3], "CodeBlock") /\ input[3].tag.code_block_kind = "Fenced"

\* parse_links_only has returned.
LinksOnlyReturned == call = "parse_links_only" /\ pc = "done"

(***************************************************************************)
(* C14.  parse_links_only over a text of length L, the scanner returning   *)
(* the matches m1..mn: the output holds Text, Start and End events only;   *)
(* its Start events are, in order, one per match,                          *)
(* Start(Link{Autolink, dest_url = the matched text}) over the match, each *)
(* followed at once by Text over the match and End(Link); the ranges of    *)
(* its Text events are non-empty, contiguous, start at 0 and end at L (a   *)
(* Text covers each non-empty gap before a match and behind the last       *)
(* one); with no match and L > 0 the output is the one Text over [0,L).    *)
(***************************************************************************)
C14_LinksOnlySplit ==
    LinksOnlyReturned =>
        LET L == Len(text)
            texts == SelectSeq(events, IsTextEvent)
            starts == SelectSeq(events, IsStartEvent)
            span(i) == Range(matches[i].start, matches[i].end)
        IN /\ \A k \in 1..Len(events) : events[k].ev \in {"Text", "Start", "End"}
           /\ Len(starts) = Len(matches)
           /\ \A i \in 1..Len(starts) :
                starts[i] = StartEvent(span(i), LinkTag("Autolink", Slice(text, span(i)), <<>>, <<>>))
           /\ \A k \in 1..Len(events) :
                /\ events[k].ev = "Start" =>
                     /\ k + 2 <= Len(events)
                     /\ events[k + 1] = TextEvent(events[k].range)
                     /\ events[k + 2] = EndEvent(events[k].range, "Link")
                /\ events[k].ev = "End" => k >= 3 /\ events[k - 2].ev = "Start"
           /\ L > 0 =>
                /\ texts # <<>>
                /\ texts[1].range.start = 0
                /\ texts[Len(texts)].range.end = L
           /\ \A j \in 1..Len(texts) :
                /\ texts[j].range.start < texts[j].range.end
                /\ j < Len(texts) => texts[j + 1].range.start = texts[j].range.end
           /\ (matches = <<>> /\ L > 0) => events = <<TextEvent(Range(0, L))>>

\* A text of three bytes with the one match [1,2): gap, link, remainder.
C14_Witness ==
    /\ LinksOnlyReturned
    /\ Len(text) = 3
    /\ Len(matches) = 1 /\ matches[1].start = 1 /\ matches[1].end = 2
    /\ events = << TextEvent(Range(0, 1)),
                   StartEvent(Range(1, 2), LinkTag("Autolink", <<2>>, <<>>, <<>>)),
                   TextEvent(Range(1, 2)),
                   EndEvent(Range(1, 2), "Link"),
                   TextEvent(Range(2, 3)) >>

(***************************************************************************)
(* C15.  For the empty input (a text of length 0, for which the tokenizer  *)
(* yields no event) parse_markdown returns an empty event list and an      *)
(* empty language set, and parse_links_only returns an empty event list.   *)
(***************************************************************************)
C15_EmptyInput ==
    (pc = "done" /\ Len(text) = 0 /\ input = <<>>) => events = <<>> /\ languages = {}

\* parse_links_only has returned for the empty text.
C15_Witness == LinksOnlyReturned /\ text = <<>> /\ matches = <<>> /\ events = <<>>

(***************************************************************************)
(* C16.  Each Html, InlineHtml, FootnoteReference, SoftBreak, HardBreak,   *)
(* Rule and TaskListMarker(b) event processed outside a metadata block     *)
(* appends, behind the SubstitutedText of a run it flushed, exactly one    *)
(* event: of the same kind, with the same boolean for a TaskListMarker,    *)
(* over the range of the input event.                                      *)
(***************************************************************************)
C16_PassThrough ==
    [][(ProcessedStep /\ Tok.ev \in {"Html", "InlineHtml", "FootnoteReference", "SoftBreak",
                                     "HardBreak", "Rule", "TaskListMarker"}) =>
          /\ Len(Body) = 1
          /\ Body[1].ev = Tok.ev
          /\ Body[1].range = Tok.range
          /\ Body[1].checked = Tok.checked
          /\ Body[1].tag = NoTag /\ Body[1].str = <<>>
      ]_vars

\* A checked task list marker and a soft break were pushed as they came.
C16_Witness ==
    /\ Len(input) = 3 /\ Len(events) = 3
    /\ input[2].ev = "TaskListMarker" /\ input[2].checked
    /\ events[2] = LeafEvent(input[2].range, "TaskListMarker", TRUE)
    /\ input[3].ev = "SoftBreak"
    /\ events[3] = LeafEvent(input[3].range, "SoftBreak", FALSE)

(***************************************************************************)
(* C17.  Each Start(tag) event other than Start(MetadataBlock), and each   *)
(* End(kind) event, processed outside a metadata block appends, behind the *)
(* SubstitutedText of a run it flushed, exactly one event: Start(the tag   *)
(* mapped by From<Tag>) respectively End(kind), over the range of the      *)
(* input event.                                                            *)
(***************************************************************************)
C17_StartEndOneToOne ==
    [][ProcessedStep =>
          /\ (Tok.ev = "Start" /\ Tok.tag.kind # "MetadataBlock")
                => Body = <<StartEvent(Tok.range, FromTag(Tok.tag))>>
          /\ Tok.ev = "End" => Body = <<EndEvent(Tok.range, Tok.tag.kind)>>
      ]_vars

\* A fenced code block inside a link: the Start and the End of both were
\* pushed over their ranges.
C17_Witness ==
    /\ Len(input) = 4 /\ Len(events) = 4
    /\ IsStartOf(input[1], "Link") /\ IsStartOf(input[2], "CodeBlock")
    /\ input[2].tag.lang = "rust"
    /\ events[1] = StartEvent(input[1].range, LinkTag("Inline", <<>>, <<>>, <<>>))
    /\ events[2] = StartEvent(input[2].range,
                              MkTag("CodeBlock", "", <<>>, <<>>, <<>>, "Fenced", "rust"))
    /\ events[3] = EndEvent(input[2].range, "CodeBlock")
    /\ events[4] = EndEvent(input[1].range, "Link")

(***************************************************************************)
(* The loop of parse_markdown as a function of the stream, to compare the  *)
(* runs over two streams.                                                  *)
(***************************************************************************)
\* The locals of parse_markdown before the first event (lines 18-23).
RunInit ==
    [events |-> <<>>, languages |-> {}, within_link |-> FALSE, within_metadata |-> FALSE,
     range |-> Range(0, 0), chunks |-> <<>>, errors |-> 0]

\* RunSubstituted with a chunk of more than 4 bytes logged and then left out
RunSubstitutedDropsLong(st, tok) ==
    IF Len(tok.cow.str) > 4
    THEN [st EXCEPT !.errors = st.errors + 1]
    ELSE [st EXCEPT !.range = Range(IF st.chunks = <<>> THEN tok.range.start
                                    ELSE st.range.start, tok.range.end),
                    !.chunks = Append(st.chunks, tok.cow.str)]

\* Lines 64-82: the substituted branch of the Text arm
RunSubstituted(st, tok) ==
    [st EXCEPT !.errors = IF Len(tok.cow.str) > 4 THEN st.errors + 1 ELSE st.errors,
               !.range = Range(IF st.chunks = <<>> THEN tok.range.start
                               ELSE st.range.start, tok.range.end),
               !.chunks = Append(st.chunks, tok.cow.str)]

\* Lines 83-124: the genuine branch of the Text arm
RunGenuine(st, tok) ==
    LET flushed == flush_substituted_text(st.range, st.chunks, st.events)
        after == IF ~st.within_link
                 THEN AutolinkLoop(tok.links, tok.range, tok.range, flushed.events)
                 ELSE [events |-> flushed.events, range |-> tok.range]
    IN [st EXCEPT !.events = IF after.range.start < after.range.end
                             THEN Append(after.events, TextEvent(after.range))
                             ELSE after.events,
                  !.chunks = flushed.chunks]

\* Lines 25-143: one iteration of the loop, for the event tok
RunStep(st, tok) ==
    IF st.within_metadata
    THEN [st EXCEPT !.within_metadata = ~IsEndOf(tok, "MetadataBlock")]
    ELSE
      LET flushed == IF tok.ev # "Text"
                     THEN flush_substituted_text(st.range, st.chunks, st.events)
                     ELSE [events |-> st.events, chunks |-> st.chunks]
          s1 == [st EXCEPT !.events = flushed.events, !.chunks = flushed.chunks]
      IN CASE tok.ev = "Start" ->
                [s1 EXCEPT
                   !.within_link = IF tok.tag.kind = "Link" THEN TRUE ELSE st.within_link,
                   !.within_metadata = tok.tag.kind = "MetadataBlock",
                   !.languages = IF tok.tag.kind = "CodeBlock"
                                    /\ tok.tag.code_block_kind = "Fenced"
                                 THEN st.languages \cup {tok.tag.lang}
                                 ELSE st.languages,
                   !.events = Append(flushed.events, StartEvent(tok.range, FromTag(tok.tag)))]
           [] tok.ev = "End" ->
                [s1 EXCEPT
                   !.within_link = IF tok.tag.kind = "Link" THEN FALSE ELSE st.within_link,
                   !.events = Append(flushed.events, EndEvent(tok.range, tok.tag.kind))]
           [] tok.ev = "Text" ->
                IF ~cow_str_points_inside(tok.cow, text)
                THEN RunSubstituted(s1, tok)
                ELSE RunGenuine(s1, tok)
           [] tok.ev = "Code" ->
                [s1 EXCEPT !.events =
                    Append(flushed.events,
                           LeafEvent(Range(tok.range.start + 1, tok.range.end - 1),
                                     "Code", FALSE))]
           [] tok.ev \in MathKinds -> s1
           [] OTHER ->
                [s1 EXCEPT !.events =
                    Append(flushed.events, LeafEvent(tok.range, tok.ev, tok.checked))]

\* The locals of parse_markdown in the current state.
Locals ==
    [events |-> events, languages |-> languages, within_link |-> within_link,
     within_metadata |-> within_metadata, range |-> substituted_text_range,
     chunks |-> substituted_text_chunks, errors |-> errors_logged]

\* What the claim compares: the kinds and ranges of the events (with the tag
\* of a Start and the boolean of a TaskListMarker) and the locals, without
\* the bytes of the replacements and without the count of the log calls.
Shape(st) ==
    [events |-> [k \in 1..Len(st.events) |->
                    [ev |-> st.events[k].ev, range |-> st.events[k].range,
                     tag |-> st.events[k].tag, checked |-> st.events[k].checked]],
     languages |-> st.languages, within_link |-> st.within_link,
     within_metadata |-> st.within_metadata, range |-> st.range,
     nchunks |-> Len(st.chunks)]

\* A replacement of 5 bytes, and the event tok with it as its replacement.
LongReplacement == <<206, 207, 208, 209, 210>>
LongTwin(tok) == [tok EXCEPT !.cow = CowStr("Boxed", Len(text), LongReplacement)]

\* The locals st as a run leaves them in which the pending chunks were longer
\* than 4 bytes.
LongChunks(st) == [st EXCEPT !.chunks = [j \in 1..Len(st.chunks) |-> LongReplacement]]

(***************************************************************************)
(* C19.  The diagnostic of the substituted branch changes nothing but the  *)
(* log, and aborts nothing.  Every iteration of the loop is the step       *)
(* RunStep on the locals, from the initial locals on, and the loop goes    *)
(* on; a substituted chunk of at most 4 bytes, replaced by one of more     *)
(* than 4 bytes, leads to locals of the same shape (the same state         *)
(* updates, events of the same kinds and ranges) with one more log call    *)
(* at most; and every event leads to locals of the same shape whether the  *)
(* chunks pending before it were short or long.  So the runs over two      *)
(* streams that differ only in the length of a replacement go through      *)
(* locals of the same shape, step by step.                                 *)
(***************************************************************************)
C19_DiagnosticOnlyLogs ==
    /\ Locals = RunInit
    /\ [][Yielded =>
            /\ pc' = "loop"
            /\ Locals' = RunStep(Locals, Tok)
            /\ (IsSubstituted(Tok) /\ Len(Tok.cow.str) <= 4) =>
                 LET twin == RunStep(Locals, LongTwin(Tok))
                 IN /\ Shape(twin) = Shape(Locals')
                    /\ twin.errors \in {errors_logged', errors_logged' + 1}
            /\ substituted_text_chunks # <<>> =>
                 LET twin == RunStep(LongChunks(Locals), Tok)
                 IN /\ Shape(twin) = Shape(Locals')
                    /\ twin.errors = errors_logged'
         ]_vars

\* Returned over a stream with a chunk of five bytes: one log call, and the
\* chunk is in the output.
C19_Witness ==
    /\ Returned
    /\ errors_logged = 1
    /\ Len(input) = 3 /\ Len(events) = 3
    /\ IsSubstituted(input[2]) /\ Len(input[2].cow.str) = 5
    /\ events[2] = SubstitutedTextEvent(input[2].range, input[2].cow.str)

\* The index range [r.start .. r.end] is one Rust can slice text with: it
\* lies inside the text, and it starts and ends between two characters.
Sliceable(r) ==
    /\ 0 <= r.start /\ r.start <= r.end /\ r.end <= Len(text)
    /\ is_char_boundary(text, r.start)
    /\ is_char_boundary(text, r.end)

(***************************************************************************)
(* C20.  No step of parse_markdown fails, over the streams the tokenizer   *)
(* yields (a Code range holds its two delimiters), on texts of characters  *)
(* of one and two bytes.  Every event is processed and the loop goes on;   *)
(* the Code range shrunk by one on each side does not go below 0 and keeps *)
(* start <= end; the ranges with which the Text arm slices the text (for   *)
(* the log call, for the scanner) and every range pushed lie inside the    *)
(* text with start <= end and split no character; and once the stream is   *)
(* exhausted the call returns the event list as it is.                     *)
(***************************************************************************)
C20_NoStepFails ==
    [][/\ Yielded =>
            /\ pc' = "loop"
            /\ Extends
            /\ \A k \in 1..Len(Emitted) : Sliceable(Emitted[k].range)
            /\ (~FlagsAfter(input).meta /\ Tok.ev = "Code") =>
                  /\ Tok.range.end - 1 >= 0
                  /\ Tok.range.start + 1 <= Tok.range.end - 1
            /\ (~FlagsAfter(input).meta /\ Tok.ev = "Text") => Sliceable(Tok.range)
       /\ (call = "parse_markdown" /\ pc = "loop" /\ pc' = "done") =>
            /\ events' = events /\ languages' = languages
            /\ \A k \in 1..Len(events) : Sliceable(events[k].range)
      ]_vars

\* Returned over a text whose second character takes two bytes: a chunk of
\* five bytes over the first character was logged with its slice of the text,
\* and the Text over the second character, a link for the scanner, was split
\* at its two ends.
C20_Witness ==
    /\ Returned
    /\ text = Utf8(3, {2})
    /\ Len(input) = 4
    /\ IsSubstituted(input[2]) /\ input[2].range = Range(0, 1)
    /\ errors_logged = 1
    /\ IsGenuine(input[3]) /\ input[3].range = Range(1, 3)
    /\ Len(input[3].links) = 1
    /\ Len(events) = 6
    /\ events[4] = TextEvent(Range(1, 3))

\* This step is an iteration of the loop of parse_markdown, for the event Tok.
LoopStep == pc = "loop" /\ pc' = "loop" /\ Yielded

(***************************************************************************)
(* C21.  parse_markdown and parse_links_only keep no state across calls    *)
(* and are deterministic.  Every call, the first one and every one made    *)
(* after another call has returned, starts with within_link = false,       *)
(* within_metadata = false, an empty pending run, an empty event list and  *)
(* an empty language set; every iteration takes the locals to the one      *)
(* value RunStep gives for them and the event, the return leaves them as   *)
(* they are, and parse_links_only returns the one list that                *)
(* parse_links_only gives for the text and the matches.  So the output of  *)
(* a call is a function of its input (the text, the events of the          *)
(* tokenizer, the matches of the scanner), whatever was called before.     *)
(***************************************************************************)
C21_NoStateAcrossCalls ==
    /\ Locals = RunInit
    /\ [][/\ (pc = "done" /\ pc' = "loop") =>
               /\ Locals' = RunInit
               /\ input' = <<>> /\ matches' = <<>>
          /\ LoopStep => Locals' = RunStep(Locals, Tok)
          /\ (call = "parse_markdown" /\ pc = "loop" /\ pc' = "done") =>
               Locals' = Locals /\ input' = input
          /\ (call = "parse_links_only" /\ pc = "loop" /\ pc' = "done") =>
               /\ events' = parse_links_only(text, matches')
               /\ languages' = {}
         ]_vars

\* A call made after another call has returned: it has read a fenced code
\* block and a substituted chunk, and returned.
C21_Witness ==
    /\ called_before
    /\ Returned
    /\ languages = {"rust"}
    /\ Len(events) = 3 /\ events[2].ev = "SubstitutedText"
    /\ substituted_text_range # Range(0, 0)

\* What a genuine Text event appends behind the flush (lines 89-124), with
\* within_link as wl.
GenuineOutput(tok, wl) ==
    LET after == IF ~wl
                 THEN AutolinkLoop(tok.links, tok.range, tok.range, <<>>)
                 ELSE [events |-> <<>>, range |-> tok.range]
    IN IF after.range.start < after.range.end
       THEN Append(after.events, TextEvent(after.range))
       ELSE after.events

\* The input ends with a substituted chunk of its own, a genuine Text and a
\* substituted chunk.
ChunkTextChunk(inp) ==
    LET n == Len(inp) IN
    /\ n >= 3
    /\ IsSubstituted(inp[n - 2]) /\ IsGenuine(inp[n - 1]) /\ IsSubstituted(inp[n])
    /\ n > 3 => ~IsSubstituted(inp[n - 3])

(***************************************************************************)
(* C22.  Two substituted Text chunks separated by a genuine Text event are *)
(* never merged.  When the second chunk is processed, the output ends with *)
(* the SubstitutedText of the first chunk, carrying that chunk's range and *)
(* replacement, and behind it the events of the genuine Text; the second   *)
(* chunk appends nothing and becomes a pending run of its own, with its    *)
(* own range and replacement.  The event that follows flushes it as a      *)
(* SubstitutedText event with the second chunk's range and replacement,    *)
(* behind the events of the genuine Text.                                  *)
(***************************************************************************)
C22_ChunksNotMerged ==
    [][/\ (ProcessedStep /\ ChunkTextChunk(input')) =>
          LET n == Len(input')
              out == GenuineOutput(input'[n - 1], within_link)
              m == Len(events)
          IN /\ m >= 1 + Len(out)
             /\ SubSeq(events, m - Len(out), m) =
                    <<SubstitutedTextEvent(input'[n - 2].range, input'[n - 2].cow.str)>>
                    \o out
             /\ events' = events
             /\ substituted_text_range' = Tok.range
             /\ substituted_text_chunks' = <<Tok.cow.str>>
       /\ (ProcessedStep /\ ChunkTextChunk(input) /\ ~IsSubstituted(Tok)) =>
          LET n == Len(input) IN
             /\ Extends
             /\ Emitted # <<>>
             /\ Emitted[1] = SubstitutedTextEvent(input[n].range, input[n].cow.str)
             /\ substituted_text_chunks' = <<>>
      ]_vars

\* A paragraph of a chunk, a genuine Text and a chunk with another
\* replacement: the output holds the SubstitutedText of the first chunk, the
\* events of the Text, the SubstitutedText of the second chunk, flushed by
\* the End of the paragraph, and that End.
C22_Witness ==
    /\ Len(input) = 5 /\ ChunkTextChunk(SubSeq(input, 1, 4))
    /\ IsStartOf(input[1], "Paragraph") /\ IsEndOf(input[5], "Paragraph")
    /\ input[2].cow.str # input[4].cow.str
    /\ events = << StartEvent(input[1].range, UnitTag("Paragraph")),
                   SubstitutedTextEvent(input[2].range, input[2].cow.str) >>
                \o GenuineOutput(input[3], FALSE)
                \o << SubstitutedTextEvent(input[4].range, input[4].cow.str),
                      EndEvent(input[1].range, "Paragraph") >>
    /\ substituted_text_chunks = <<>>

\* The owned string s holds the bytes of the string cow of the tokenizer.
SameStr(s, cow) == s = cow.str

\* The owned strings hold, in the same order, the bytes of the strings cows.
SameStrs(ss, cows) ==
    /\ Len(ss) = Len(cows)
    /\ \A i \in 1..Len(cows) : SameStr(ss[i], cows[i])

\* MarkdownTag::from has returned.
FromReturned == call = "from" /\ pc = "done"

(***************************************************************************)
(* C23.  The Tag Mapper is total and maps every tag of the tokenizer to    *)
(* the owned tag of the same variant: the kind of the result is the kind   *)
(* of the argument; the strings of the result (the id, the classes and the *)
(* attributes of a heading, the language of a fenced code block, the label *)
(* of a footnote definition, the dest_url, title and id of a link or an    *)
(* image) hold the bytes of the argument's strings; the classes and the    *)
(* attributes of a heading and the alignments of a table have the length   *)
(* and the order they have in the argument; the other fields (level, kind  *)
(* of code block, start number, link type, kind of metadata block) are     *)
(* those of the argument.                                                  *)
(***************************************************************************)
C23_TagMapped ==
    FromReturned =>
        LET tag == input[1]
            owned == events[1]
        IN /\ Len(events) = 1
           /\ owned.kind = tag.kind
           /\ tag.kind = "Heading" =>
                /\ owned.level = tag.level
                /\ SameStrs(owned.id, tag.id)
                /\ SameStrs(owned.classes, tag.classes)
                /\ Len(owned.attrs) = Len(tag.attrs)
                /\ \A i \in 1..Len(tag.attrs) :
                      /\ SameStr(owned.attrs[i].key, tag.attrs[i].key)
                      /\ SameStrs(owned.attrs[i].value, tag.attrs[i].value)
           /\ tag.kind = "CodeBlock" =>
                /\ owned.code_block_kind = tag.code_block_kind
                /\ tag.code_block_kind = "Fenced" => SameStr(owned.info, tag.info)
           /\ tag.kind = "List" => owned.start_number = tag.start_number
           /\ tag.kind = "FootnoteDefinition" => SameStr(owned.label, tag.label)
           /\ tag.kind = "Table" => owned.alignments = tag.alignments
           /\ tag.kind \in {"Link", "Image"} =>
                /\ owned.link_type = tag.link_type
                /\ SameStr(owned.dest_url, tag.dest_url)
                /\ SameStr(owned.title, tag.title)
                /\ SameStr(owned.id, tag.id)
           /\ tag.kind = "MetadataBlock" => owned.metadata_kind = tag.metadata_kind

\* A heading with an id, two different classes and an attribute with a value
\* has been mapped.
C23_Witness ==
    /\ FromReturned
    /\ input[1].kind = "Heading"
    /\ Len(input[1].id) = 1
    /\ Len(input[1].classes) = 2 /\ input[1].classes[1].str # input[1].classes[2].str
    /\ Len(input[1].attrs) >= 1 /\ Len(input[1].attrs[1].value) = 1
    /\ events[1].kind = "Heading"
    /\ events[1].classes = <<input[1].classes[1].str, input[1].classes[2].str>>

(***************************************************************************)
(* C24.  PARSE_OPTIONS and UNWANTED_OPTIONS (metadata blocks in YAML       *)
(* style, math, definition lists) partition the options of the tokenizer:  *)
(* their union is Options::all() and their intersection Options::empty(),  *)
(* so that neither of the tests all_options_considered and                 *)
(* wanted_and_unwanted_options_disjoint panics.                            *)
(***************************************************************************)
C24_OptionsPartitioned ==
    /\ pc # "panicked"
    /\ call \in {"all_options_considered", "wanted_and_unwanted_options_disjoint"} =>
          /\ PARSE_OPTIONS \cup UNWANTED_OPTIONS = OptionsAll
          /\ PARSE_OPTIONS \cap UNWANTED_OPTIONS = OptionsEmpty

\* The test of the union has passed: PARSE_OPTIONS holds the old footnotes
\* and with them the bit of the footnotes, UNWANTED_OPTIONS the three other
\* flags.
C24_Witness ==
    /\ call = "all_options_considered" /\ pc = "done"
    /\ ENABLE_OLD_FOOTNOTES \subseteq PARSE_OPTIONS
    /\ ENABLE_FOOTNOTES \subseteq ENABLE_OLD_FOOTNOTES
    /\ UNWANTED_OPTIONS = {7, 10, 12}
    /\ PARSE_OPTIONS = OptionsAll \ UNWANTED_OPTIONS

\* The step took its Text event for a text of the input (lines 83-124): no
\* run is pending behind it.  A substituted chunk is pending behind its step.
TreatedAsGenuine == substituted_text_chunks' = <<>>

\* The payload of tok is the slice of the input at the range of tok.
IsSliceAtRange(tok) ==
    /\ tok.cow.variant = "Borrowed"
    /\ tok.cow.ptr = tok.range.start
    /\ tok.range.end <= Len(text)
    /\ tok.cow.str = Slice(text, tok.range)

\* A Text event is processed outside a metadata block.
TextStep == ProcessedStep /\ Tok.ev = "Text"

(***************************************************************************)
(* C25.  A Text event is treated as genuine if and only if its payload is  *)
(* the slice of the input at the claimed range; every other payload the    *)
(* tokenizer yields, an inlined, a static or an owned replacement string,  *)
(* is treated as substituted: it appends nothing and becomes a pending     *)
(* chunk.  The test of line 64 reads only the address of the payload's     *)
(* first byte; on the events of the tokenizer, which borrows a text from   *)
(* its range and builds a replacement outside the input, the two agree.    *)
(***************************************************************************)
C25_GenuineIffSliceAtRange ==
    [][TextStep =>
         /\ TreatedAsGenuine <=> IsSliceAtRange(Tok)
         /\ IsSliceAtRange(Tok) => Body = GenuineOutput(Tok, within_link)
         /\ ~IsSliceAtRange(Tok) =>
              /\ events' = events
              /\ substituted_text_chunks' = Append(substituted_text_chunks, Tok.cow.str)
      ]_vars

\* A paragraph of a text over the byte 0, emitted as a Text, and an owned
\* replacement string that starts right behind the input, left pending.
C25_Witness ==
    /\ Len(input) = 3
    /\ IsStartOf(input[1], "Paragraph")
    /\ IsSliceAtRange(input[2]) /\ input[2].range = Range(0, 1) /\ input[2].links = <<>>
    /\ input[3].ev = "Text" /\ input[3].cow.variant = "Boxed"
    /\ input[3].cow.ptr = Len(text)
    /\ events[Len(events)] = TextEvent(Range(0, 1))
    /\ substituted_text_chunks = <<input[3].cow.str>>

(***************************************************************************)
(* C26.  The diagnostic of the Offset Verifier is logged exactly when a    *)
(* substituted chunk whose own replacement is longer than 4 bytes is       *)
(* processed, once for that chunk.  No other step logs: not a chunk of 4   *)
(* bytes or less, whatever the chunks pending before it add up to, not a   *)
(* genuine Text, not an event skipped in a metadata block, and not the     *)
(* step that flushes a run, whatever the length of its concatenation.      *)
(***************************************************************************)
C26_LoggedPerLongChunk ==
    /\ errors_logged = 0
    /\ [][Yielded =>
            errors_logged' =
                IF ProcessedStep /\ IsSubstituted(Tok) /\ Len(Tok.cow.str) > 4
                THEN errors_logged + 1
                ELSE errors_logged
         ]_vars

\* A chunk of 4 bytes and a chunk of 1 byte were flushed as one
\* SubstitutedText of 5 bytes, and nothing was logged.
C26_Witness ==
    /\ Len(input) = 4
    /\ IsSubstituted(input[2]) /\ Len(input[2].cow.str) = 4
    /\ IsSubstituted(input[3]) /\ Len(input[3].cow.str) = 1
    /\ Len(events) = 3
    /\ events[2].ev = "SubstitutedText" /\ Len(events[2].str) = 5
    /\ errors_logged = 0

\* The positions in the tokenizer's stack of the links that are open and
\* whose Start was processed, not skipped inside a metadata block.
OpenLinks ==
    { i \in 1..Len(stack) :
        /\ stack[i].tag.kind = "Link"
        /\ \A j \in 1..(i - 1) : stack[j].tag.kind # "MetadataBlock" }

(***************************************************************************)
(* C27.  After any prefix of the input stream, within_link is true if and  *)
(* only if at least one Link whose Start was processed outside a metadata  *)
(* block is still open.  (The Start and End of the links parse_markdown    *)
(* makes itself are pushed to the output and are no events of the input.)  *)
(***************************************************************************)
C27_WithinLinkIffLinkOpen ==
    (call = "parse_markdown" /\ pc = "loop") => (within_link <=> OpenLinks # {})

(***************************************************************************)
(* C28.  While within_metadata is true, the step for any event leaves      *)
(* within_link, the language set, the pending run, the output and the      *)
(* number of diagnostics as they are; within_metadata is cleared by the    *)
(* End of a MetadataBlock and by no other event.  So a Start(Link) inside  *)
(* a metadata block does not set within_link and a fenced code block       *)
(* inside a metadata block adds no language.                               *)
(***************************************************************************)
C28_MetadataFrame ==
    [][(within_metadata /\ Yielded) =>
          /\ UNCHANGED <<within_link, languages, substituted_text_range,
                         substituted_text_chunks, events, errors_logged>>
          /\ within_metadata' = ~IsEndOf(Tok, "MetadataBlock")
      ]_vars

\* A Start(Link) arrived inside a metadata block: within_link is false, and
\* the output holds nothing but what the Start of the block left.
C28_Witness ==
    /\ Len(input) = 2
    /\ IsStartOf(input[1], "MetadataBlock") /\ IsStartOf(input[2], "Link")
    /\ within_metadata /\ ~within_link
    /\ Len(events) = 1

(***************************************************************************)
(* C29.  In every reachable state in which within_metadata is true, the    *)
(* pending run is empty: the Start(MetadataBlock) that sets the flag       *)
(* flushes the run first, and no chunk is accumulated while the flag is    *)
(* set.                                                                    *)
(***************************************************************************)
C29_NoRunInMetadata == within_metadata => substituted_text_chunks = <<>>

\* A chunk was pending when a metadata block started: it was flushed as a
\* SubstitutedText before the block's Start event, and none is pending inside.
C29_Witness ==
    /\ Len(input) = 3
    /\ IsStartOf(input[1], "Paragraph")
    /\ IsSubstituted(input[2]) /\ IsStartOf(input[3], "MetadataBlock")
    /\ within_metadata
    /\ Len(events) = 3
    /\ events[2] = SubstitutedTextEvent(input[2].range, input[2].cow.str)
    /\ substituted_text_chunks = <<>>

\* The locals st with within_link set to b
WithLink(st, b) == [st EXCEPT !.within_link = b]

(***************************************************************************)
(* C30.  A substituted Text chunk is handled the same way whether or not   *)
(* within_link is true.  Its step pushes no event (the chunk is not        *)
(* scanned for links), appends the replacement to the pending run, sets    *)
(* the start of the run's range if the run was empty and its end always,   *)
(* and leaves within_link as it is: the locals after the step are those    *)
(* the step gives from the same locals with the other value of             *)
(* within_link, but for within_link itself.  The event that ends the run,  *)
(* inside the link or behind it, emits the run as one SubstitutedText.     *)
(***************************************************************************)
C30_ChunkSameInLink ==
    [][/\ (ProcessedStep /\ IsSubstituted(Tok)) =>
            /\ events' = events
            /\ within_link' = within_link
            /\ substituted_text_chunks' = Append(substituted_text_chunks, Tok.cow.str)
            /\ substituted_text_range' =
                   Range(IF substituted_text_chunks = <<>>
                         THEN Tok.range.start
                         ELSE substituted_text_range.start,
                         Tok.range.end)
            /\ Locals' = WithLink(RunStep(WithLink(Locals, ~within_link), Tok), within_link)
       /\ (ProcessedStep /\ ~IsSubstituted(Tok) /\ substituted_text_chunks # <<>>) =>
            /\ Emitted # <<>>
            /\ Emitted[1] = SubstitutedTextEvent(substituted_text_range,
                                                 Concat(substituted_text_chunks))
      ]_vars

\* A substituted chunk inside a link, flushed by the End of the link: the
\* output is Start(Link), SubstitutedText, End(Link), with no link made from
\* the chunk.
C30_Witness ==
    /\ Len(input) = 3
    /\ IsStartOf(input[1], "Link") /\ IsSubstituted(input[2]) /\ IsEndOf(input[3], "Link")
    /\ Len(events) = 3
    /\ IsStartOf(events[1], "Link")
    /\ events[2] = SubstitutedTextEvent(input[2].range, input[2].cow.str)
    /\ IsEndOf(events[3], "Link")
    /\ ~within_link

\* The event e starts a link of type Autolink.
IsAutolinkStart(e) == e.ev = "Start" /\ e.tag.kind = "Link" /\ e.tag.link_type = "Autolink"

(***************************************************************************)
(* C31.  Every Start(Link) of type Autolink in the output of               *)
(* parse_markdown or of parse_links_only (the tokenizer of the model       *)
(* yields none, so each is one the parser made) is followed at once by a   *)
(* Text event and then by an End(Link) event, all three over the same      *)
(* range, the span of the link; its title and id are empty and its         *)
(* dest_url holds the bytes of the text over that span.                    *)
(***************************************************************************)
C31_AutolinkTriple ==
    \A i \in 1..Len(events) :
        IsAutolinkStart(events[i]) =>
            /\ i + 2 <= Len(events)
            /\ events[i + 1] = TextEvent(events[i].range)
            /\ events[i + 2] = EndEvent(events[i].range, "Link")
            /\ events[i].tag.title = <<>>
            /\ events[i].tag.id = <<>>
            /\ events[i].range.start < events[i].range.end
            /\ events[i].range.end <= Len(text)
            /\ events[i].tag.dest_url = Slice(text, events[i].range)

\* parse_markdown made a link of the bytes 1..3 of a Text over 0..3: a Text
\* over the gap, then Start, Text and End over the span.
C31_Witness ==
    /\ Returned
    /\ Len(events) = 6
    /\ events[2] = TextEvent(Range(0, 1))
    /\ IsAutolinkStart(events[3])
    /\ events[3].range = Range(1, 3) /\ events[3].tag.dest_url = <<2, 3>>
    /\ events[4] = TextEvent(Range(1, 3))
    /\ events[5] = EndEvent(Range(1, 3), "Link")

(***************************************************************************)
(* C32.  No Text event over an empty range (start = end) is in the output  *)
(* of parse_markdown or of parse_links_only, whatever the stream (a Text   *)
(* event over no bytes included) and whatever the spans of the scanner: a  *)
(* span at the start of the text leaves no gap before it, a span at its    *)
(* end no remainder, and two spans that touch no gap between them.         *)
(***************************************************************************)
C32_NoEmptyText ==
    \A i \in 1..Len(events) :
        events[i].ev = "Text" => events[i].range.start < events[i].range.end

\* Two links that touch fill a Text over 0..3: the output holds the events
\* of the two links and no Text before, between or behind them.
C32_Witness ==
    /\ Returned
    /\ Len(events) = 8
    /\ IsAutolinkStart(events[2]) /\ events[2].range = Range(0, 1)
    /\ IsAutolinkStart(events[5]) /\ events[5].range = Range(1, 3)
    /\ IsEndOf(events[8], "Paragraph")

\* A flush, and another flush right behind it, of the pending run.
FlushedOnce ==
    flush_substituted_text(substituted_text_range, substituted_text_chunks, events)
FlushedTwice ==
    flush_substituted_text(substituted_text_range, FlushedOnce.chunks, FlushedOnce.events)

(***************************************************************************)
(* C33.  No substituted chunk is emitted twice.  The step for an event     *)
(* emits at most one SubstitutedText event; when it emits one, chunks were *)
(* pending, the payload is their concatenation, and no chunk is pending    *)
(* behind the step, so that no later flush emits them again; when no chunk *)
(* is pending, the step emits no SubstitutedText.  A flush right behind a  *)
(* flush changes nothing: the two emit at most one event.                  *)
(***************************************************************************)
C33_ChunkEmittedOnce ==
    [][Yielded =>
         LET subs == SelectSeq(Emitted, IsSubstitutedTextEvent) IN
         /\ Extends
         /\ Len(subs) <= 1
         /\ subs # <<>> =>
              /\ substituted_text_chunks # <<>>
              /\ subs[1].str = Concat(substituted_text_chunks)
              /\ substituted_text_chunks' = <<>>
         /\ substituted_text_chunks' # <<>> =>
              substituted_text_chunks' \in
                  {substituted_text_chunks, Append(substituted_text_chunks, Tok.cow.str)}
         /\ FlushedOnce.chunks = <<>>
         /\ FlushedTwice = FlushedOnce
         /\ Len(FlushedTwice.events) <= Len(events) + 1
      ]_vars

\* A chunk was flushed by a Rule, and the End behind the Rule, with nothing
\* pending, emitted no SubstitutedText: the output holds the chunk once.
C33_Witness ==
    /\ Returned
    /\ Len(input) = 4
    /\ IsSubstituted(input[2]) /\ input[3].ev = "Rule" /\ input[4].ev = "End"
    /\ Len(events) = 4
    /\ events[2] = SubstitutedTextEvent(input[2].range, input[2].cow.str)
    /\ events[3].ev = "Rule" /\ events[4].ev = "End"
    /\ substituted_text_chunks = <<>>

\* The events evs with every range moved by s bytes
Shifted(evs, s) ==
    [i \in 1..Len(evs) |->
        [evs[i] EXCEPT !.range = Range(evs[i].range.start + s, evs[i].range.end + s)]]

\* The stream is Start(Paragraph), one genuine Text and End(Paragraph), all
\* three over the whole text.
ParagraphOfText(inp) ==
    /\ Len(inp) = 3
    /\ IsStartOf(inp[1], "Paragraph") /\ IsGenuine(inp[2]) /\ IsEndOf(inp[3], "Paragraph")
    /\ inp[1].range = Range(0, Len(text)) /\ inp[2].range = Range(0, Len(text))

(***************************************************************************)
(* C34.  The events parse_markdown emits for a genuine Text event over     *)
(* [s, e), processed with no link open, are the events parse_links_only    *)
(* returns for the bytes of the text over [s, e) and the same spans of the *)
(* scanner, with every range moved by s.  So for the stream                *)
(* Start(Paragraph), Text over [0, L), End(Paragraph) the output is the    *)
(* Start, the list parse_links_only returns for the text, and the End.     *)
(***************************************************************************)
C34_SplitAsLinksOnly ==
    [][/\ (GenuineTextStep /\ ~within_link) =>
            Body = Shifted(parse_links_only(Slice(text, Tok.range), Tok.links),
                           Tok.range.start)
       /\ (Yielded /\ pc = "loop" /\ ParagraphOfText(input')) =>
            events' = <<StartEvent(input'[1].range, UnitTag("Paragraph"))>>
                      \o parse_links_only(text, input'[2].links)
                      \o <<EndEvent(input'[3].range, "Paragraph")>>
      ]_vars

\* A paragraph of one Text over 0..3 with a link over 1..2: between the Start
\* and the End stand a Text over 0..1, the three events of the link and a
\* Text over 2..3.
C34_Witness ==
    /\ Returned
    /\ ParagraphOfText(input)
    /\ Len(text) = 3 /\ Len(input[2].links) = 1
    /\ Len(events) = 7
    /\ SubSeq(events, 2, 6) = parse_links_only(text, input[2].links)
    /\ events[2] = TextEvent(Range(0, 1))
    /\ IsAutolinkStart(events[3]) /\ events[3].range = Range(1, 2)
    /\ events[6] = TextEvent(Range(2, 3))

====
